---- MODULE Spec2Model ----
(***************************************************************************)
(* Actor kinematics and solid-collision resolution of js/actors.js.        *)
(*                                                                         *)
(* Units.  Positions are whole pixels, time is counted in frames, and      *)
(* velocities / accelerations are pixels per frame (per frame squared).    *)
(* The rates below are the Actor defaults rescaled to these units so that  *)
(* every product the code forms (a*delta/2, v*delta, MOVEAMOUNT *          *)
(* AIR_CONTROL) is a whole number and the arithmetic of the code is        *)
(* reproduced without rounding.                                            *)
(***************************************************************************)
EXTENDS Integers, Sequences, FiniteSets, TLC

\* ---------------------------------------------------------------- bounds
WorldWidth == 8
WorldHeight == 8
MaxTime == 4

\* ------------------------------------------------------ program constants
MOVEAMOUNT == 2
G_CONST == 2
JUMP_VEL == 4
JUMP_DELAY == 1
AIR_CONTROL_PERCENT == 50
DEFAULT_WIDTH == 2
DEFAULT_HEIGHT == 2

world == [width |-> WorldWidth, height |-> WorldHeight]

\* JavaScript null, and a present value, for the nullable fields.
Null == <<>>
Some(v) == <<v>>

\* ------------------------------------------------------------- App.Utils
almostEqual(a, b, e) == b >= a - e /\ b <= a + e

anyIn(search, array) == (search \cap array) # {}

keys == [left |-> {"left"}, right |-> {"right"}, up |-> {"up"}, down |-> {"down"}]

abs(n) == IF n < 0 THEN -n ELSE n

max(m, n) == IF m >= n THEN m ELSE n

min(m, n) == IF m <= n THEN m ELSE n

\* Math.sqrt on the perfect squares; the largest r with r*r <= n otherwise.
sqrt(n) == CHOOSE r \in 0..n : r * r <= n /\ (r + 1) * (r + 1) > n

\* ------------------------------------------------------------------- Box
Box(x, y, w, h) == [x |-> x, y |-> y, width |-> w, height |-> h]

\* Boxes that merely touch do not overlap.
overlapsX_open(this, otherBox) ==
    this.x + this.width > otherBox.x /\ otherBox.x + otherBox.width > this.x

overlapsX(this, otherBox) ==
    this.x + this.width >= otherBox.x /\ otherBox.x + otherBox.width >= this.x

overlapsY(this, otherBox) ==
    this.y + this.height >= otherBox.y /\ otherBox.y + otherBox.height >= this.y

overlaps(this, otherBox) == overlapsX(this, otherBox) /\ overlapsY(this, otherBox)

\* ------------------------------------------------- Collection and TileMap
\* A collideWith argument is one of
\*   [kind |-> "Box", box |-> b]
\*   [kind |-> "Collection", items |-> <<b1, ..., bn>>]
\*   [kind |-> "TileMap", grid |-> <<row1, ..., rown>>], a cell being Null or Some(b).
Undefined == [undefined |-> TRUE]

gridCell(grid, i, j) ==
    IF j <= Len(grid[i]) THEN grid[i][j] ELSE Some(Undefined)

RECURSIVE tileRow(_, _, _, _)
tileRow(grid, i, j, h) ==
    IF j > h THEN <<>>
    ELSE (IF gridCell(grid, i, j) # Null THEN <<gridCell(grid, i, j)[1]>> ELSE <<>>)
         \o tileRow(grid, i, j + 1, h)

RECURSIVE tileRows(_, _, _)
tileRows(grid, i, h) ==
    IF i > Len(grid) THEN <<>> ELSE tileRow(grid, i, 1, h) \o tileRows(grid, i + 1, h)

TileMapGetAll(grid) ==
    LET w == Len(grid)
        h == IF w > 0 THEN Len(grid[1]) ELSE 0
    IN  tileRows(grid, 1, h)

getAll(collideWith) ==
    IF collideWith.kind = "Collection" THEN collideWith.items
    ELSE TileMapGetAll(collideWith.grid)

\* Box.collides over items[i..]: the first item that overlaps, or none.
RECURSIVE firstOverlap(_, _, _)
firstOverlap(this, items, i) ==
    IF i > Len(items) THEN Null
    ELSE IF overlaps(this, items[i]) THEN Some(items[i])
    ELSE firstOverlap(this, items, i + 1)

\* The items are searched from the last to the first.
collides_lastFirst(this, collideWith) ==
    IF collideWith.kind = "Box"
    THEN IF overlaps(this, collideWith.box) THEN Some(collideWith.box) ELSE Null
    ELSE LET items == getAll(collideWith)
         IN  firstOverlap(this, [i \in 1 .. Len(items) |-> items[Len(items) + 1 - i]], 1)

\* Box.collides: Some(item) for the item returned, Null for false.
collides(this, collideWith) ==
    IF collideWith.kind = "Box"
    THEN IF overlaps(this, collideWith.box) THEN Some(collideWith.box) ELSE Null
    ELSE firstOverlap(this, getAll(collideWith), 1)

\* Collection.count
count(collection) == Len(collection.items)

\* ----------------------------------------------------------------- Actor
\* The Actor's instance fields; the upper-case fields are the configuration
\* properties an Actor subclass or instance overrides.
NewActor(xArg, yArg, cfg) ==
    LET x == IF xArg # 0 THEN xArg ELSE (world.width - DEFAULT_WIDTH) \div 2
        y == IF yArg # 0 THEN yArg ELSE (world.height - DEFAULT_HEIGHT) \div 2
    IN
    [x |-> x, y |-> y, width |-> DEFAULT_WIDTH, height |-> DEFAULT_HEIGHT,
     lastX |-> x, lastY |-> y,
     xVelocity |-> 0, yVelocity |-> 0, xAcceleration |-> 0, yAcceleration |-> 0,
     lastJump |-> 0,
     lastLooked |-> {},
     jumpDirection |-> [right |-> FALSE, left |-> FALSE],
     jumpKeyDown |-> FALSE,
     numJumps |-> 0,
     inAir |-> FALSE,
     fallLeft |-> Null,
     isBeingDragged |-> FALSE,
     isDraggable |-> FALSE, dragStartX |-> 0, dragStartY |-> 0,
     dropTargets |-> [kind |-> "Collection", items |-> <<>>],
     GRAVITY |-> cfg.GRAVITY,
     JUMP_RELEASE |-> cfg.JUMP_RELEASE,
     MULTI_JUMP |-> cfg.MULTI_JUMP,
     CONTINUOUS_MOVEMENT |-> cfg.CONTINUOUS_MOVEMENT,
     STAY_IN_WORLD |-> cfg.STAY_IN_WORLD,
     DAMPING_FACTOR |-> cfg.DAMPING_FACTOR]

isInAir(this) == this.inAir

isJumping(this) == this.numJumps > 0

isFalling(this) == isInAir(this) /\ this.numJumps = 0

\* The momentum is derived from fallLeft even when the Actor is already in the air.
startFalling_always(this) ==
    LET a == IF this.fallLeft # Null
             THEN [this EXCEPT !.jumpDirection =
                       [right |-> ~this.fallLeft[1], left |-> this.fallLeft[1]]]
             ELSE this
    IN  [a EXCEPT !.inAir = TRUE]

\* The ledge momentum is taken the wrong way round.
startFalling_swapped(this) ==
    LET a == IF ~this.inAir /\ this.fallLeft # Null
             THEN [this EXCEPT !.jumpDirection =
                       [right |-> this.fallLeft[1], left |-> ~this.fallLeft[1]]]
             ELSE this
    IN  [a EXCEPT !.inAir = TRUE]

startFalling(this) ==
    LET a == IF ~this.inAir /\ this.fallLeft # Null
             THEN [this EXCEPT !.jumpDirection =
                       [right |-> ~this.fallLeft[1], left |-> this.fallLeft[1]]]
             ELSE this
    IN  [a EXCEPT !.inAir = TRUE]

\* Landing stops the fall and leaves the Actor marked as in the air.
stopFalling_staysInAir(this) ==
    [this EXCEPT !.yAcceleration = IF @ > 0 THEN 0 ELSE @,
                 !.yVelocity = IF @ > 0 THEN 0 ELSE @,
                 !.numJumps = 0]

\* Landing leaves the count of jumps as it was.
stopFalling_keepsJumps(this) ==
    [this EXCEPT !.yAcceleration = IF @ > 0 THEN 0 ELSE @,
                 !.yVelocity = IF @ > 0 THEN 0 ELSE @,
                 !.inAir = FALSE]

\* Landing stops the vertical motion whatever its direction.
stopFalling_stopAll(this) ==
    [this EXCEPT !.yAcceleration = 0, !.yVelocity = 0, !.numJumps = 0, !.inAir = FALSE]

stopFalling(this) ==
    [this EXCEPT !.yAcceleration = IF @ > 0 THEN 0 ELSE @,
                 !.yVelocity = IF @ > 0 THEN 0 ELSE @,
                 !.numJumps = 0,
                 !.inAir = FALSE]

\* MOVEAMOUNT * AIR_CONTROL
airControlVelocity == (MOVEAMOUNT * AIR_CONTROL_PERCENT) \div 100

\* Air control is given up only against an opposite momentum.
moveLeft_keepsNoMomentum(this) ==
    LET a == [this EXCEPT !.fallLeft = Some(TRUE)]
    IN  IF a.GRAVITY /\ isInAir(a)
        THEN IF a.jumpDirection.right
             THEN [a EXCEPT !.xVelocity = -airControlVelocity,
                            !.jumpDirection = [right |-> FALSE, left |-> FALSE]]
             ELSE a
        ELSE [a EXCEPT !.xVelocity = -MOVEAMOUNT]

\* processInput, "Move left." branch body
moveLeft(this) ==
    LET a == [this EXCEPT !.fallLeft = Some(TRUE)]
    IN  IF a.GRAVITY /\ isInAir(a)
        THEN IF a.jumpDirection.right \/ ~a.jumpDirection.left
             THEN [a EXCEPT !.xVelocity = -airControlVelocity,
                            !.jumpDirection = [right |-> FALSE, left |-> FALSE]]
             ELSE a
        ELSE [a EXCEPT !.xVelocity = -MOVEAMOUNT]

\* processInput, "Move right." branch body
moveRight(this) ==
    LET a == [this EXCEPT !.fallLeft = Some(FALSE)]
    IN  IF a.GRAVITY /\ isInAir(a)
        THEN IF a.jumpDirection.left \/ ~a.jumpDirection.right
             THEN [a EXCEPT !.xVelocity = airControlVelocity,
                            !.jumpDirection = [right |-> FALSE, left |-> FALSE]]
             ELSE a
        ELSE [a EXCEPT !.xVelocity = MOVEAMOUNT]

\* The key to the right counts even when the key to the left is down.
inputIsRight_independent(direction) == anyIn(keys.right, direction)

\* The local flags left / right of processInput.
inputIsLeft(direction) == anyIn(keys.left, direction)

inputIsRight(direction) == ~anyIn(keys.left, direction) /\ anyIn(keys.right, direction)

\* processInput, the horizontal if / else-if.
moveHorizontal(this, direction) ==
    IF inputIsLeft(direction) THEN moveLeft(this)
    ELSE IF inputIsRight(direction) THEN moveRight(this)
    ELSE this

\* A jump is available one jump too long.
jumpAvailable_offByOne(this) ==
    ~isInAir(this) \/ this.MULTI_JUMP >= this.numJumps \/ this.MULTI_JUMP = -1

\* The key release is not required.
jumpReady_noRelease(this, now) == now - this.lastJump > JUMP_DELAY

\* The jump forgets the horizontal direction.
jump_noDirection(this, now, left, right) ==
    [this EXCEPT !.yVelocity = -JUMP_VEL,
                 !.lastJump = now,
                 !.jumpDirection = [right |-> FALSE, left |-> FALSE],
                 !.numJumps = @ + 1,
                 !.inAir = TRUE]

\* The outer condition of the jump branch: a jump is still available.
jumpAvailable(this) ==
    ~isInAir(this) \/ this.MULTI_JUMP > this.numJumps \/ this.MULTI_JUMP = -1

\* The inner condition of the jump branch: sufficient delay, key pressed again.
jumpReady(this, now) ==
    now - this.lastJump > JUMP_DELAY /\ (~this.JUMP_RELEASE \/ ~this.jumpKeyDown)

\* The body of the accepted jump.
jump(this, now, left, right) ==
    [this EXCEPT !.yVelocity = -JUMP_VEL,
                 !.lastJump = now,
                 !.jumpDirection = [right |-> right, left |-> left],
                 !.numJumps = @ + 1,
                 !.inAir = TRUE]

\* processInput, "Move up / jump." branch body
moveUp(this, now, left, right) ==
    LET a == IF ~this.GRAVITY THEN [this EXCEPT !.yVelocity = -MOVEAMOUNT]
             ELSE IF jumpAvailable(this) /\ jumpReady(this, now)
                  THEN jump(this, now, left, right)
                  ELSE this
    IN  [a EXCEPT !.jumpKeyDown = TRUE]

\* processInput, "Move down." branch body
moveDown(this) ==
    IF ~isInAir(this) \/ ~this.GRAVITY THEN [this EXCEPT !.yVelocity = MOVEAMOUNT] ELSE this

\* processInput, the vertical if / else-if.
moveVertical(this, direction, now) ==
    IF anyIn(keys.up, direction)
    THEN moveUp(this, now, inputIsLeft(direction), inputIsRight(direction))
    ELSE IF anyIn(keys.down, direction) THEN moveDown(this)
    ELSE this

\* The local flag looked of processInput, from the state the vertical branch sees.
looked(this, direction) ==
    \/ anyIn(keys.left, direction)
    \/ anyIn(keys.right, direction)
    \/ anyIn(keys.up, direction) /\ ~this.GRAVITY
    \/ ~anyIn(keys.up, direction) /\ anyIn(keys.down, direction)
         /\ (~isInAir(this) \/ ~this.GRAVITY)

setLastLooked(this, direction) ==
    [this EXCEPT !.lastLooked =
        IF this.GRAVITY THEN direction \cap (keys.left \cup keys.right) ELSE direction]

\* A missing direction is never replaced by the last one.
processInput_neverContinues(this, directionArg, now) ==
    IF directionArg = {} THEN this
    ELSE LET direction == directionArg
             h == moveHorizontal(this, direction)
             v == moveVertical(h, direction, now)
         IN  IF looked(h, direction) THEN setLastLooked(v, direction) ELSE v

processInput(this, directionArg, now) ==
    IF directionArg = {} /\ ~this.CONTINUOUS_MOVEMENT THEN this
    ELSE LET direction == IF directionArg = {} THEN this.lastLooked ELSE directionArg
             h == moveHorizontal(this, direction)
             v == moveVertical(h, direction, now)
         IN  IF looked(h, direction) THEN setLastLooked(v, direction) ELSE v

\* Gravity is set, not accumulated.
ambientAcceleration_constantGravity(this) ==
    IF this.GRAVITY
    THEN IF isInAir(this)
         THEN LET a == [this EXCEPT !.yAcceleration = G_CONST]
              IN  IF a.jumpDirection.left THEN [a EXCEPT !.xVelocity = -MOVEAMOUNT]
                  ELSE IF a.jumpDirection.right THEN [a EXCEPT !.xVelocity = MOVEAMOUNT]
                  ELSE a
         ELSE stopFalling(this)
    ELSE this

ambientAcceleration(this) ==
    IF this.GRAVITY
    THEN IF isInAir(this)
         THEN LET a == [this EXCEPT !.yAcceleration = @ + G_CONST]
              IN  IF a.jumpDirection.left THEN [a EXCEPT !.xVelocity = -MOVEAMOUNT]
                  ELSE IF a.jumpDirection.right THEN [a EXCEPT !.xVelocity = MOVEAMOUNT]
                  ELSE a
         ELSE stopFalling(this)
    ELSE this

\* The bottom clamp forgets to land the Actor.
stayInWorld_noLanding(this) ==
    IF this.STAY_IN_WORLD
    THEN LET a == IF this.x < 0 THEN [this EXCEPT !.x = 0]
                  ELSE IF this.x + this.width > world.width
                       THEN [this EXCEPT !.x = world.width - this.width]
                       ELSE this
         IN  IF a.y < 0 THEN [a EXCEPT !.y = 0]
             ELSE IF a.y + a.height > world.height
                  THEN [a EXCEPT !.y = world.height - a.height]
                  ELSE a
    ELSE this

stayInWorld(this) ==
    IF this.STAY_IN_WORLD
    THEN LET a == IF this.x < 0 THEN [this EXCEPT !.x = 0]
                  ELSE IF this.x + this.width > world.width
                       THEN [this EXCEPT !.x = world.width - this.width]
                       ELSE this
         IN  IF a.y < 0 THEN [a EXCEPT !.y = 0]
             ELSE IF a.y + a.height > world.height
                  THEN stopFalling([a EXCEPT !.y = world.height - a.height])
                  ELSE a
    ELSE this

\* a * d2 with d2 = delta / 2
halfStep(a, delta) == (a * delta) \div 2

\* move(), "Apply half acceleration"
kick(this, delta) ==
    [this EXCEPT !.xVelocity = @ + halfStep(this.xAcceleration, delta),
                 !.yVelocity = @ + halfStep(this.yAcceleration, delta)]

\* The diagonal velocity is scaled to the smaller of its components.
rescale_toMin(this) ==
    LET xV == this.xVelocity
        yV == this.yVelocity
        magnitude == min(abs(xV), abs(yV))
        origMag == sqrt(xV * xV + yV * yV)
    IN  IF xV # 0 /\ yV # 0 /\ ~this.GRAVITY
        THEN [this EXCEPT !.xVelocity = (@ * magnitude) \div origMag,
                          !.yVelocity = (@ * magnitude) \div origMag]
        ELSE this

\* move(), "Don't let diagonal movement be faster than axial movement"
rescale(this) ==
    LET xV == this.xVelocity
        yV == this.yVelocity
        magnitude == max(abs(xV), abs(yV))
        origMag == sqrt(xV * xV + yV * yV)
    IN  IF xV # 0 /\ yV # 0 /\ ~this.GRAVITY
        THEN [this EXCEPT !.xVelocity = (@ * magnitude) \div origMag,
                          !.yVelocity = (@ * magnitude) \div origMag]
        ELSE this

\* move(), "Apply thrust"
drift(this, delta) ==
    [this EXCEPT !.x = @ + this.xVelocity * delta,
                 !.y = @ + this.yVelocity * delta]

\* The thrust is applied before the first half of the acceleration.
integrate_driftFirst(this, delta) ==
    kick(kick(drift(rescale(this), delta), delta), delta)

\* move(), up to and including the second half of the midpoint formula.
integrate(this, delta) ==
    kick(drift(rescale(kick(this, delta)), delta), delta)

move(this, delta) == stayInWorld(integrate(this, delta))

dampVelocity(this, delta) ==
    IF this.DAMPING_FACTOR # Null /\ ~almostEqual(this.xVelocity, 0, 0)
    THEN LET factor == 1 - this.DAMPING_FACTOR[1] * delta
             a == [this EXCEPT !.xVelocity = @ * factor]
         IN  IF ~a.GRAVITY /\ ~almostEqual(a.yVelocity, 0, 0)
             THEN [a EXCEPT !.yVelocity = @ * factor]
             ELSE a
    ELSE LET a == [this EXCEPT !.xVelocity = 0]
         IN  IF ~a.GRAVITY THEN [a EXCEPT !.yVelocity = 0] ELSE a

\* update(), the branch taken when the Actor is not being dragged, before damping.
updateMoved(this, direction, now, delta) ==
    LET a == move(ambientAcceleration(processInput(this, direction, now)), delta)
    IN  IF almostEqual(a.lastX, a.x, 0) THEN [a EXCEPT !.fallLeft = Null] ELSE a

\* The dragged path does not record the last position.
update_noLastWhenDragged(this, direction, now, delta, mouse) ==
    LET a == [this EXCEPT !.lastX = this.x, !.lastY = this.y]
        b == IF this.isBeingDragged
             THEN [this EXCEPT !.x = mouse.x - this.width \div 2,
                               !.y = mouse.y - this.height \div 2]
             ELSE updateMoved(a, direction, now, delta)
    IN  dampVelocity(b, delta)

update(this, direction, now, delta, mouse) ==
    LET a == [this EXCEPT !.lastX = this.x, !.lastY = this.y]
        b == IF a.isBeingDragged
             THEN [a EXCEPT !.x = mouse.x - a.width \div 2, !.y = mouse.y - a.height \div 2]
             ELSE updateMoved(a, direction, now, delta)
    IN  dampVelocity(b, delta)

\* The mousedown.drag / touchstart.drag listener of setDraggable.
startDrag(this) ==
    [this EXCEPT !.isBeingDragged = TRUE, !.dragStartX = this.x, !.dragStartY = this.y]

\* The canvasdragstop.drag listener of setDraggable.
stopDrag(this) ==
    LET a == [this EXCEPT !.isBeingDragged = FALSE]
        target == collides(a, a.dropTargets)
    IN  IF count(a.dropTargets) # 0 /\ target = Null
        THEN [a EXCEPT !.x = a.dragStartX, !.y = a.dragStartY]
        ELSE a

\* The release of any key counts as the release of the jump key.
release_anyKey(this, releasedDirections) ==
    IF this.GRAVITY /\ releasedDirections # {}
    THEN [this EXCEPT !.jumpKeyDown = FALSE]
    ELSE this

release(this, releasedDirections) ==
    IF this.GRAVITY /\ anyIn(keys.up, releasedDirections)
    THEN [this EXCEPT !.jumpKeyDown = FALSE]
    ELSE this

\* ----------------------------------------------------------------- vectors
\* An angle is kept as the ray it points along: the shortest whole vector [x, y] of
\* that direction.  Math.atan2(0, 0) is 0, the ray [1, 0].
gcd(m, n) == CHOOSE d \in 1 .. max(max(m, n), 1) :
                 /\ m % d = 0 /\ n % d = 0
                 /\ \A e \in (d + 1) .. max(m, n) : m % e # 0 \/ n % e # 0

\* Math.atan2(y, x)
atan2(y, x) ==
    IF x = 0 /\ y = 0 THEN [x |-> 1, y |-> 0]
    ELSE [x |-> x \div gcd(abs(x), abs(y)), y |-> y \div gcd(abs(x), abs(y))]

\* magnitude * Math.cos(radialDir), magnitude * Math.sin(radialDir)
timesCos(magnitude, radialDir) ==
    (magnitude * radialDir.x) \div sqrt(radialDir.x * radialDir.x + radialDir.y * radialDir.y)

timesSin(magnitude, radialDir) ==
    (magnitude * radialDir.y) \div sqrt(radialDir.x * radialDir.x + radialDir.y * radialDir.y)

setAccelerationVector(this, radialDir, magnitude) ==
    [this EXCEPT !.xAcceleration = timesCos(magnitude, radialDir),
                 !.yAcceleration = timesSin(magnitude, radialDir)]

getAccelerationVector(this) ==
    [magnitude |-> sqrt(this.xVelocity * this.xVelocity + this.yVelocity * this.yVelocity),
     direction |-> atan2(this.yVelocity, this.xVelocity)]

\* --------------------------------------------------------------- collision
moveOutsideX(this, other) ==
    IF overlaps(this, other)
    THEN IF 2 * this.x + this.width < 2 * other.x + other.width
         THEN [this EXCEPT !.x = other.x - this.width - 1]
         ELSE [this EXCEPT !.x = other.x + other.width + 1]
    ELSE this

moveOutsideY(this, other) ==
    IF overlaps(this, other)
    THEN IF 2 * this.y + this.height <= 2 * other.y + other.height
         THEN [this EXCEPT !.y = other.y - this.height - 1]
         ELSE [this EXCEPT !.y = other.y + other.height + 1]
    ELSE this

\* The distance moveOutsideX returns (moved).
movedX(this, other) ==
    IF overlaps(this, other) THEN moveOutsideX(this, other).x - this.x ELSE 0

\* The distance moveOutsideY returns (moved).
movedY(this, other) ==
    IF overlaps(this, other) THEN moveOutsideY(this, other).y - this.y ELSE 0

\* The penetration depths moveOutside compares.
depthX(this, other) == min(this.x + this.width - other.x, other.x + other.width - this.x)

depthY(this, other) == min(this.y + this.height - other.y, other.y + other.height - this.y)

\* Equal depths are resolved on Y.
xAxisFirst_strict(this, other) == depthX(this, other) < depthY(this, other)

\* Which axis moveOutside attempts first.
xAxisFirst(this, other) == depthX(this, other) <= depthY(this, other)

\* Both axes are corrected from where the Actor was.
moveOutside_bothAxes(this, other) ==
    [this EXCEPT !.x = moveOutsideX(this, other).x, !.y = moveOutsideY(this, other).y]

\* The Actor after moveOutside; the returned distances are the differences of position.
moveOutside(this, other) ==
    IF xAxisFirst(this, other)
    THEN moveOutsideY(moveOutsideX(this, other), other)
    ELSE moveOutsideX(moveOutsideY(this, other), other)

\* The object moveOutside returns: the distances of its two calls, in their order.
movedOutside(this, other) ==
    IF xAxisFirst(this, other)
    THEN [x |-> movedX(this, other), y |-> movedY(moveOutsideX(this, other), other)]
    ELSE [x |-> movedX(moveOutsideY(this, other), other), y |-> movedY(this, other)]

\* Standing only when the bottom edge is exactly on the top.
standingOn_exact(this, box) ==
    overlapsX(this, box) /\ almostEqual(this.y + this.height, box.y, 0)

\* standingOn for a single Box
standingOn(this, box) ==
    overlapsX(this, box) /\ almostEqual(this.y + this.height, box.y, 1)

\* standingOn over items[i..] of a Collection or TileMap
RECURSIVE standingOnItems(_, _, _)
standingOnItems(this, items, i) ==
    IF i > Len(items) THEN FALSE
    ELSE IF standingOn(this, items[i]) THEN TRUE
    ELSE standingOnItems(this, items, i + 1)

\* Actor.standingOn for a Box, a Collection or a TileMap
standingOnAny(this, box) ==
    IF box.kind = "Box" THEN standingOn(this, box.box)
    ELSE standingOnItems(this, getAll(box), 1)

\* Every hit clears the horizontal momentum, a hit of the bottom edge included.
stopMomentum_alwaysSide(this, collideWith) ==
    [this EXCEPT !.jumpDirection = [right |-> FALSE, left |-> FALSE]]

\* _collideSolidBox, "If we're in the air and we hit something, stop the momentum."
stopMomentum(this, collideWith) ==
    IF almostEqual(this.y, collideWith.y + collideWith.height, 1)
    THEN [this EXCEPT !.yAcceleration = IF @ < 0 THEN 0 ELSE @,
                      !.yVelocity = IF @ < 0 THEN 0 ELSE @]
    ELSE [this EXCEPT !.jumpDirection = [right |-> FALSE, left |-> FALSE]]

\* The standing test looks at the current x-position.
standingTestX_current(this) == this.x

\* The x-position the standing test of _collideSolidBox looks at.
standingTestX(this) == this.lastX

\* _collideSolidBox: [actor, falling, collided]
collideSolidBox(this, collideWith) ==
    LET collided == overlaps(this, collideWith)
        a == IF collided THEN moveOutside(this, collideWith) ELSE this
    IN  IF a.GRAVITY
        THEN LET standing == standingOn([a EXCEPT !.x = standingTestX(a)], collideWith)
                 b == IF standing THEN stopFalling(a) ELSE a
                 falling == ~standing
                 c == IF falling /\ collided THEN stopMomentum(b, collideWith) ELSE b
             IN  [actor |-> c, falling |-> falling, collided |-> collided]
        ELSE [actor |-> a, falling |-> TRUE, collided |-> collided]

\* The initial value of falling in collideSolid.
fallingSeed(this) ==
    this.GRAVITY /\ (this.y + this.height # world.height \/ ~this.STAY_IN_WORLD)

\* The loop of collideSolid over items[i..]; steps collects, per item, the Actor
\* before the call of _collideSolidBox and what the call returned.
RECURSIVE collideItems(_, _, _, _, _, _)
collideItems(this, items, i, falling, collided, steps) ==
    IF i > Len(items)
    THEN [actor |-> this, falling |-> falling, collided |-> collided, steps |-> steps]
    ELSE LET result == collideSolidBox(this, items[i])
         IN  collideItems(result.actor, items, i + 1,
                          IF ~result.falling THEN FALSE ELSE falling,
                          IF result.collided THEN TRUE ELSE collided,
                          Append(steps, [before |-> this, box |-> items[i], result |-> result]))

\* How the single-Box branch of collideSolid combines the seed with the result.
boxFalling(seed, result) == result.falling

\* collideSolid up to the loop's end (before "if (falling) startFalling()").
collideAll(this, collideWith) ==
    IF collideWith.kind = "Box"
    THEN LET result == collideSolidBox(this, collideWith.box)
         IN  [actor |-> result.actor,
              falling |-> boxFalling(fallingSeed(this), result),
              collided |-> result.collided,
              steps |-> <<[before |-> this, box |-> collideWith.box, result |-> result]>>]
    ELSE collideItems(this, getAll(collideWith), 1, fallingSeed(this), FALSE, <<>>)

\* An Actor that collided with something is not made to fall.
collideSolid_noFallAfterCollision(this, collideWith) ==
    LET r == collideAll(this, collideWith)
    IN  [actor |-> IF r.falling /\ ~r.collided THEN startFalling(r.actor) ELSE r.actor,
         falling |-> r.falling /\ ~r.collided,
         collided |-> r.collided,
         steps |-> r.steps]

\* collideSolid: the Actor afterwards, the returned value (collided), and the trace.
collideSolid(this, collideWith) ==
    LET r == collideAll(this, collideWith)
    IN  [actor |-> IF r.falling THEN startFalling(r.actor) ELSE r.actor,
         falling |-> r.falling,
         collided |-> r.collided,
         steps |-> r.steps]

\* ------------------------------------------------------------ environment
\* The solids of the scene: a platform whose right end is a ledge, and a block.
Platform == Box(0, 5, 4, 1)

Block == Box(6, 3, 2, 2)

Solids ==
    { [kind |-> "Box", box |-> Platform],
      [kind |-> "Collection", items |-> <<Platform>>],
      [kind |-> "Collection", items |-> <<Platform, Block>>],
      [kind |-> "Collection", items |-> <<>>],
      [kind |-> "TileMap", grid |-> << <<Null, Some(Block)>>, <<Some(Platform), Null>> >>] }

\* Where an Actor is created: on the platform, on the floor of the world.
StartPositions ==
    { [x |-> 3, y |-> 3], [x |-> 1, y |-> world.height - DEFAULT_HEIGHT] }

\* App.physicsTimeElapsed when the Actor is created: late enough for a first jump.
StartTime == JUMP_DELAY + 1

Config(g, jr, mj, siw) ==
    [GRAVITY |-> g, JUMP_RELEASE |-> jr, MULTI_JUMP |-> mj, STAY_IN_WORLD |-> siw,
     CONTINUOUS_MOVEMENT |-> FALSE, DAMPING_FACTOR |-> Null]

Configs ==
    { Config(TRUE, FALSE, 0, TRUE), Config(TRUE, TRUE, 1, TRUE),
      Config(TRUE, FALSE, -1, FALSE), Config(TRUE, TRUE, 2, FALSE),
      Config(FALSE, FALSE, 0, TRUE), Config(FALSE, FALSE, 0, FALSE) }

\* The directions an update is given.  Without gravity only axial directions are
\* given, so that the diagonal rescale of move() (an irrational factor) never applies.
Directions(this) ==
    IF this.GRAVITY
    THEN { {}, {"left"}, {"right"}, {"up"}, {"down"}, {"up", "right"},
           {"left", "right", "up"} }
    ELSE { {}, {"left"}, {"right"}, {"up"}, {"down"} }

ReleasedDirections == { {"up"}, {"left"} }

NoMouse == [x |-> 0, y |-> 0]

VARIABLES actor, solids, physicsTimeElapsed, physicsDelta, frame, last

vars == <<actor, solids, physicsTimeElapsed, physicsDelta, frame, last>>

\* The last call made on the Actor: its arguments, the time, the Actor before it.
NoCall ==
    [op |-> "init", direction |-> {}, collideWith |-> Null, args |-> Null, now |-> 0,
     pre |-> Null]

\* What the frame loop has called so far in the current physics step.
NewFrame == [released |-> FALSE, updated |-> FALSE, collided |-> FALSE]

InitActors == { NewActor(p.x, p.y, cfg) : p \in StartPositions, cfg \in Configs }

Init ==
    /\ actor \in InitActors
    /\ solids = Solids
    /\ physicsTimeElapsed = StartTime
    /\ physicsDelta = 1
    /\ frame = NewFrame
    /\ last = NoCall

\* The frame loop starts the next physics step.
Tick ==
    /\ frame.updated
    /\ physicsTimeElapsed < MaxTime
    /\ physicsTimeElapsed' = physicsTimeElapsed + physicsDelta
    /\ frame' = NewFrame
    /\ UNCHANGED <<actor, solids, physicsDelta, last>>

\* actor.release(releasedDirections): a key-up event before the step's update.
Release(releasedDirections) ==
    /\ ~frame.released /\ ~frame.updated
    /\ actor' = release(actor, releasedDirections)
    /\ last' = [NoCall EXCEPT !.op = "release", !.direction = releasedDirections,
                              !.now = physicsTimeElapsed, !.pre = actor]
    /\ frame' = [frame EXCEPT !.released = TRUE]
    /\ UNCHANGED <<solids, physicsTimeElapsed, physicsDelta>>

\* actor.update(direction), once per physics step, with the mouse at Mouse.coords.
UpdateAt(direction, mouse) ==
    /\ ~frame.updated
    /\ actor' = update(actor, direction, physicsTimeElapsed, physicsDelta, mouse)
    /\ last' = [NoCall EXCEPT !.op = "update", !.direction = direction, !.args = mouse,
                              !.now = physicsTimeElapsed, !.pre = actor]
    /\ frame' = [frame EXCEPT !.updated = TRUE]
    /\ UNCHANGED <<solids, physicsTimeElapsed, physicsDelta>>

Update(direction) == UpdateAt(direction, NoMouse)

\* The obstacle collided with is taken out of the scene.
CollideSolid_consumesObstacle(collideWith) ==
    /\ frame.updated /\ ~frame.collided
    /\ actor' = collideSolid(actor, collideWith).actor
    /\ last' = [NoCall EXCEPT !.op = "collideSolid", !.collideWith = collideWith,
                              !.now = physicsTimeElapsed, !.pre = actor]
    /\ frame' = [frame EXCEPT !.collided = TRUE]
    /\ solids' = solids \ {collideWith}
    /\ UNCHANGED <<physicsTimeElapsed, physicsDelta>>

\* actor.collideSolid(collideWith) against the step's solids, after the step's update.
CollideSolid(collideWith) ==
    /\ frame.updated /\ ~frame.collided
    /\ actor' = collideSolid(actor, collideWith).actor
    /\ last' = [NoCall EXCEPT !.op = "collideSolid", !.collideWith = collideWith,
                              !.now = physicsTimeElapsed, !.pre = actor]
    /\ frame' = [frame EXCEPT !.collided = TRUE]
    /\ UNCHANGED <<solids, physicsTimeElapsed, physicsDelta>>

Next ==
    \/ Tick
    \/ \E releasedDirections \in ReleasedDirections : Release(releasedDirections)
    \/ \E direction \in Directions(actor) : Update(direction)
    \/ \E collideWith \in solids : CollideSolid(collideWith)

Spec == Init /\ [][Next]_vars

\* ------------------------------------------------- an Actor left at rest
\* The containers that hold the platform alone.
PlatformSolids ==
    { [kind |-> "Box", box |-> Platform],
      [kind |-> "Collection", items |-> <<Platform>>],
      [kind |-> "TileMap", grid |-> << <<Some(Platform)>> >>] }

\* Every x at which the Actor's horizontal range meets the platform's.
RestingXs == (Platform.x - DEFAULT_WIDTH) .. (Platform.x + Platform.width)

\* Actors with gravity created with their bottom edge on the platform's top.
InitResting ==
    /\ actor \in { NewActor(x, Platform.y - DEFAULT_HEIGHT, cfg) :
                      x \in RestingXs, cfg \in { c \in Configs : c.GRAVITY } }
    /\ solids = PlatformSolids
    /\ physicsTimeElapsed = StartTime
    /\ physicsDelta = 1
    /\ frame = NewFrame
    /\ last = NoCall

\* Steps without input: update() and collideSolid against the platform.
NextResting ==
    \/ Tick
    \/ Update({})
    \/ \E collideWith \in solids : CollideSolid(collideWith)

SpecResting == InitResting /\ [][NextResting]_vars

\* ------------------------------------------ falling, step after step
\* Actors with GRAVITY on that must stay in the world, each in a scene with one set
\* of obstacles.  The first update may ask for a jump; no later update does.
FallingActors ==
    { NewActor(p.x, p.y, cfg) :
          p \in StartPositions, cfg \in { c \in Configs : c.GRAVITY /\ c.STAY_IN_WORLD } }

InitFalling ==
    /\ actor \in FallingActors
    /\ solids \in { {collideWith} : collideWith \in Solids }
    /\ physicsTimeElapsed = StartTime
    /\ physicsDelta = 1
    /\ frame = NewFrame
    /\ last = NoCall

\* actor.update(direction), with no jump input after the first step.
FallingUpdate(direction) ==
    /\ physicsTimeElapsed > StartTime => ~anyIn(keys.up, direction)
    /\ Update(direction)

\* The frame loop starts the next physics step, after the step's update and
\* collideSolid.  Without jump input the time is read nowhere: it is counted up to
\* MaxTime and kept there, and the steps go on.
NextStep ==
    /\ frame.updated /\ frame.collided
    /\ physicsTimeElapsed' = min(physicsTimeElapsed + physicsDelta, MaxTime)
    /\ frame' = NewFrame
    /\ UNCHANGED <<actor, solids, physicsDelta, last>>

NextFalling ==
    \/ NextStep
    \/ \E direction \in Directions(actor) : FallingUpdate(direction)
    \/ \E collideWith \in solids : CollideSolid(collideWith)

\* What the frame records of the step's update and of the step's collideSolid: the
\* only steps of NextFalling that set frame.updated and frame.collided.
Updated == ~frame.updated /\ frame' = [frame EXCEPT !.updated = TRUE]

Collided == frame.updated /\ ~frame.collided /\ frame' = [frame EXCEPT !.collided = TRUE]

\* The frame loop never stops: each step's update is made, then its collideSolid,
\* then the next step starts.
SpecFalling ==
    /\ InitFalling /\ [][NextFalling]_vars
    /\ WF_frame(Updated) /\ WF_frame(Collided) /\ WF_vars(NextStep)

\* ------------------------------------------ the push-out, axis by axis
\* Actors anywhere inside the world.
PushOutActors ==
    { [NewActor(1, 1, cfg) EXCEPT !.x = x, !.y = y, !.lastX = x, !.lastY = y] :
          x \in 0 .. (world.width - DEFAULT_WIDTH),
          y \in 0 .. (world.height - DEFAULT_HEIGHT),
          cfg \in { c \in Configs : c.STAY_IN_WORLD /\ c.MULTI_JUMP = 0 } }

\* A TileMap without rows, and one without tiles.
EmptyTileMaps ==
    { [kind |-> "TileMap", grid |-> <<>>],
      [kind |-> "TileMap", grid |-> << <<Null, Null>> >>] }

\* The step's update() has been made: the collision methods are called next.
InitPushOut ==
    /\ actor \in PushOutActors
    /\ solids = Solids \cup EmptyTileMaps
    /\ physicsTimeElapsed = StartTime
    /\ physicsDelta = 1
    /\ frame = [NewFrame EXCEPT !.updated = TRUE]
    /\ last = NoCall

\* actor.moveOutsideX(other)
MoveOutsideX(other) ==
    /\ last.op = "init"
    /\ actor' = moveOutsideX(actor, other)
    /\ last' = [NoCall EXCEPT !.op = "moveOutsideX",
                              !.collideWith = [kind |-> "Box", box |-> other],
                              !.now = physicsTimeElapsed, !.pre = actor]
    /\ UNCHANGED <<solids, physicsTimeElapsed, physicsDelta, frame>>

\* actor.moveOutsideY(other)
MoveOutsideY(other) ==
    /\ last.op = "init"
    /\ actor' = moveOutsideY(actor, other)
    /\ last' = [NoCall EXCEPT !.op = "moveOutsideY",
                              !.collideWith = [kind |-> "Box", box |-> other],
                              !.now = physicsTimeElapsed, !.pre = actor]
    /\ UNCHANGED <<solids, physicsTimeElapsed, physicsDelta, frame>>

\* actor.collides(collideWith): a query, nothing is written.
Collides(collideWith) ==
    /\ last.op = "init"
    /\ last' = [NoCall EXCEPT !.op = "collides", !.collideWith = collideWith,
                              !.now = physicsTimeElapsed, !.pre = actor]
    /\ UNCHANGED <<actor, solids, physicsTimeElapsed, physicsDelta, frame>>

\* actor.standingOn(box): a query, nothing is written.
StandingOn(box) ==
    /\ last.op = "init"
    /\ last' = [NoCall EXCEPT !.op = "standingOn", !.collideWith = box,
                              !.now = physicsTimeElapsed, !.pre = actor]
    /\ UNCHANGED <<actor, solids, physicsTimeElapsed, physicsDelta, frame>>

\* actor.moveOutside(other)
MoveOutside(other) ==
    /\ last.op = "init"
    /\ actor' = moveOutside(actor, other)
    /\ last' = [NoCall EXCEPT !.op = "moveOutside",
                              !.collideWith = [kind |-> "Box", box |-> other],
                              !.args = movedOutside(actor, other),
                              !.now = physicsTimeElapsed, !.pre = actor]
    /\ UNCHANGED <<solids, physicsTimeElapsed, physicsDelta, frame>>

NextPushOut ==
    \/ \E other \in {Platform, Block} : MoveOutside(other)
    \/ \E other \in {Platform, Block} : MoveOutsideX(other)
    \/ \E other \in {Platform, Block} : MoveOutsideY(other)
    \/ \E collideWith \in solids : Collides(collideWith)
    \/ \E box \in solids : StandingOn(box)
    \/ \E collideWith \in solids : CollideSolid(collideWith)

SpecPushOut == InitPushOut /\ [][NextPushOut]_vars

\* ------------------------------------------- move() and dampVelocity()
\* The velocities and accelerations an Actor is given; 15 and 20 are the legs of a
\* right triangle, so that the diagonal of move() has a whole length (25).
Velocities == { -20, -18, -15, -2, 0, 2, 15, 18, 20 }

Accelerations == { -2, 0, 2 }

\* App.physicsDelta, in frames.
PhysicsDeltas == { 0, 1, 2 }

DampingFactors == { Null, Some(0), Some(1), Some(2) }

\* The diagonal rescale of move() is exact on this Actor: Math.sqrt and the
\* products with the scale are whole numbers.
Representable(this, delta) ==
    LET xV == kick(this, delta).xVelocity
        yV == kick(this, delta).yVelocity
        origMag == sqrt(xV * xV + yV * yV)
    IN  IF this.GRAVITY \/ xV = 0 \/ yV = 0 THEN TRUE
        ELSE /\ origMag * origMag = xV * xV + yV * yV
             /\ (xV * max(abs(xV), abs(yV))) % origMag = 0
             /\ (yV * max(abs(xV), abs(yV))) % origMag = 0

MovingActors ==
    { [NewActor(p.x, p.y, cfg) EXCEPT !.xVelocity = v[1], !.yVelocity = v[2],
                                      !.xAcceleration = a[1], !.yAcceleration = a[2],
                                      !.DAMPING_FACTOR = d] :
          p \in StartPositions,
          cfg \in { c \in Configs : ~c.JUMP_RELEASE },
          v \in Velocities \X Velocities,
          a \in Accelerations \X Accelerations,
          d \in DampingFactors }

InitMove ==
    /\ actor \in MovingActors
    /\ solids = {}
    /\ physicsDelta \in PhysicsDeltas
    /\ Representable(actor, physicsDelta)
    /\ physicsTimeElapsed = StartTime
    /\ frame = NewFrame
    /\ last = NoCall

\* actor.move()
Move ==
    /\ last.op = "init"
    /\ actor' = move(actor, physicsDelta)
    /\ last' = [NoCall EXCEPT !.op = "move", !.now = physicsTimeElapsed, !.pre = actor]
    /\ UNCHANGED <<solids, physicsTimeElapsed, physicsDelta, frame>>

\* actor.dampVelocity()
DampVelocity ==
    /\ last.op = "init"
    /\ actor' = dampVelocity(actor, physicsDelta)
    /\ last' = [NoCall EXCEPT !.op = "dampVelocity", !.now = physicsTimeElapsed,
                              !.pre = actor]
    /\ UNCHANGED <<solids, physicsTimeElapsed, physicsDelta, frame>>

NextMove == Move \/ DampVelocity

SpecMove == InitMove /\ [][NextMove]_vars

\* ------------------------- dragging and continuous movement
\* Actors with and without gravity and CONTINUOUS_MOVEMENT.
InteractiveConfigs ==
    { [c EXCEPT !.CONTINUOUS_MOVEMENT = cm] :
          c \in { Config(TRUE, FALSE, 0, TRUE), Config(FALSE, FALSE, 0, TRUE) },
          cm \in BOOLEAN }

\* this.dropTargets
DropTargets ==
    { [kind |-> "Collection", items |-> <<>>],
      [kind |-> "Collection", items |-> <<Block>>] }

\* Mouse.coords while an Actor is dragged.
MouseCoords == { [x |-> 2, y |-> 2], [x |-> 5, y |-> 4] }

InteractiveDirections == { {}, {"left"}, {"right"}, {"up"} }

InteractiveSolids ==
    { [kind |-> "Box", box |-> Platform],
      [kind |-> "Collection", items |-> <<Platform, Block>>] }

\* Draggable Actors: setDraggable(true) has been called.
InitInteractive ==
    /\ actor \in { [NewActor(p.x, p.y, cfg) EXCEPT !.isDraggable = TRUE,
                                                    !.dropTargets = dropTargets] :
                      p \in StartPositions, cfg \in InteractiveConfigs,
                      dropTargets \in DropTargets }
    /\ solids = InteractiveSolids
    /\ physicsTimeElapsed = StartTime
    /\ physicsDelta = 1
    /\ frame = NewFrame
    /\ last = NoCall

\* The user presses the mouse button on the Actor, between two physics steps.
DragStart ==
    /\ ~frame.updated
    /\ actor.isDraggable /\ ~actor.isBeingDragged
    /\ actor' = startDrag(actor)
    /\ last' = [NoCall EXCEPT !.op = "dragstart", !.now = physicsTimeElapsed, !.pre = actor]
    /\ UNCHANGED <<solids, physicsTimeElapsed, physicsDelta, frame>>

\* The user lets go of the Actor (canvasdragstop), between two physics steps.
DragStop ==
    /\ ~frame.updated
    /\ actor.isBeingDragged
    /\ actor' = stopDrag(actor)
    /\ last' = [NoCall EXCEPT !.op = "dragstop", !.now = physicsTimeElapsed, !.pre = actor]
    /\ UNCHANGED <<solids, physicsTimeElapsed, physicsDelta, frame>>

NextInteractive ==
    \/ Tick
    \/ DragStart
    \/ DragStop
    \/ \E direction \in InteractiveDirections, mouse \in MouseCoords :
           UpdateAt(direction, mouse)
    \/ \E collideWith \in solids : CollideSolid(collideWith)

SpecInteractive == InitInteractive /\ [][NextInteractive]_vars

\* ------------------------------------------------ acceleration vectors
\* Directions along the axes and along the sides of the 3-4-5 triangle, whose
\* cosine and sine are fractions.
RadialDirs ==
    { [x |-> 1, y |-> 0], [x |-> 0, y |-> 1], [x |-> -1, y |-> 0], [x |-> 0, y |-> -1],
      [x |-> 3, y |-> 4], [x |-> -4, y |-> 3], [x |-> 4, y |-> -3], [x |-> -3, y |-> -4] }

\* Magnitudes whose components along RadialDirs are whole.
Magnitudes == { 0, 5, 10 }

\* Actors whose velocity has a whole length.
VectorActors ==
    { a \in MovingActors :
          /\ a.DAMPING_FACTOR = Null /\ a.xAcceleration = 0
          /\ sqrt(a.xVelocity * a.xVelocity + a.yVelocity * a.yVelocity)
                * sqrt(a.xVelocity * a.xVelocity + a.yVelocity * a.yVelocity)
                = a.xVelocity * a.xVelocity + a.yVelocity * a.yVelocity }

InitVector ==
    /\ actor \in VectorActors
    /\ solids = {}
    /\ physicsTimeElapsed = StartTime
    /\ physicsDelta = 1
    /\ frame = NewFrame
    /\ last = NoCall

\* actor.setAccelerationVector(radialDir, magnitude)
SetAccelerationVector(radialDir, magnitude) ==
    /\ last.op = "init"
    /\ actor' = setAccelerationVector(actor, radialDir, magnitude)
    /\ last' = [NoCall EXCEPT !.op = "setAccelerationVector",
                              !.args = [radialDir |-> radialDir, magnitude |-> magnitude],
                              !.now = physicsTimeElapsed, !.pre = actor]
    /\ UNCHANGED <<solids, physicsTimeElapsed, physicsDelta, frame>>

NextVector ==
    \E radialDir \in RadialDirs, magnitude \in Magnitudes :
        SetAccelerationVector(radialDir, magnitude)

SpecVector == InitVector /\ [][NextVector]_vars

\* ------------------------------------------------- TileMap cells
\* Rows and columns count from 1 here and from 0 in the source.
\* tileMap.getCell(row, col): the cell, or undefined where there is none.
getCell(this, row, col) ==
    IF row \in 1..Len(this.grid) /\ col \in 1..Len(this.grid[row])
    THEN this.grid[row][col]
    ELSE Some(Undefined)

\* tileMap.setCell(row, col, obj): stores obj if the row exists and the cell is
\* defined, and does nothing otherwise.
setCell(this, row, col, obj) ==
    IF row \in 1..Len(this.grid) /\ col \in 1..Len(this.grid[row])
       /\ this.grid[row][col] # Some(Undefined)
    THEN [this EXCEPT !.grid[row][col] = obj]
    ELSE this

\* tileMap.clearCell(row, col): blanks the cell under the same condition.
clearCell(this, row, col) ==
    IF row \in 1..Len(this.grid) /\ col \in 1..Len(this.grid[row])
       /\ this.grid[row][col] # Some(Undefined)
    THEN [this EXCEPT !.grid[row][col] = Null]
    ELSE this

getRows(this) == Len(this.grid)

getCols(this) == IF Len(this.grid) > 0 THEN Len(this.grid[1]) ELSE 0

\* The constructor's argument `grid`, which the methods' closures keep.  It is the
\* array this.grid names (closure = Null) until clearAll gives this.grid a new one.
closureGrid(this) == IF this.closure = Null THEN this.grid ELSE this.closure[1]

\* grid[i][j] = null for i < w, j < h, on an array of at least w rows; a row
\* shorter than h grows to h.
nulled(grid, w, h) ==
    [i \in 1..Len(grid) |->
        IF i > w THEN grid[i]
        ELSE [j \in 1..(IF Len(grid[i]) > h THEN Len(grid[i]) ELSE h) |->
                 IF j <= h THEN Null ELSE grid[i][j]]]

\* tileMap.clearAll(): this.grid becomes a new array of w arrays made by
\* new Array(h), whose elements are undefined; the nulls go to the closure's grid.
clearAll(this) ==
    LET w == Len(this.grid)
        h == IF w > 0 THEN Len(this.grid[1]) ELSE 0
    IN  [this EXCEPT !.grid = [i \in 1..w |-> [j \in 1..h |-> Some(Undefined)]],
                     !.closure = Some(nulled(closureGrid(this), w, h))]

\* The grids a TileMap is constructed from: a rectangle, two whose rows differ in
\* length (a longer and a shorter row after the first), and one without rows.
TileGrids ==
    { << <<Null, Some(Block)>>, <<Some(Platform), Null>> >>,
      << <<Some(Block)>>, <<Some(Platform), Null>> >>,
      << <<Null, Some(Block)>>, <<Some(Platform)>> >>,
      <<>> }

\* Row and column arguments, with one on either side of every grid.
TileRows == 0..3
TileCols == 0..3

TileObjects == {Platform, Block}

InitTileMap ==
    /\ actor = NewActor(0, 0, Config(FALSE, FALSE, 0, FALSE))
    /\ solids \in { {[kind |-> "TileMap", grid |-> grid, closure |-> Null]} :
                        grid \in TileGrids }
    /\ physicsTimeElapsed = StartTime
    /\ physicsDelta = 1
    /\ frame = NewFrame
    /\ last = NoCall

\* tileMap.setCell(row, col, obj)
SetCell(tileMap, row, col, obj) ==
    /\ solids' = (solids \ {tileMap}) \cup {setCell(tileMap, row, col, Some(obj))}
    /\ last' = [NoCall EXCEPT !.op = "setCell", !.collideWith = tileMap,
                              !.args = [row |-> row, col |-> col, obj |-> obj],
                              !.now = physicsTimeElapsed]
    /\ UNCHANGED <<actor, physicsTimeElapsed, physicsDelta, frame>>

\* tileMap.clearCell(row, col)
ClearCell(tileMap, row, col) ==
    /\ solids' = (solids \ {tileMap}) \cup {clearCell(tileMap, row, col)}
    /\ last' = [NoCall EXCEPT !.op = "clearCell", !.collideWith = tileMap,
                              !.args = [row |-> row, col |-> col],
                              !.now = physicsTimeElapsed]
    /\ UNCHANGED <<actor, physicsTimeElapsed, physicsDelta, frame>>

\* tileMap.clearAll()
ClearAll(tileMap) ==
    /\ solids' = (solids \ {tileMap}) \cup {clearAll(tileMap)}
    /\ last' = [NoCall EXCEPT !.op = "clearAll", !.collideWith = tileMap,
                              !.now = physicsTimeElapsed]
    /\ UNCHANGED <<actor, physicsTimeElapsed, physicsDelta, frame>>

NextTileMap ==
    \E tileMap \in solids :
        \/ \E row \in TileRows, col \in TileCols, obj \in TileObjects :
              SetCell(tileMap, row, col, obj)
        \/ \E row \in TileRows, col \in TileCols : ClearCell(tileMap, row, col)
        \/ ClearAll(tileMap)

SpecTileMap == InitTileMap /\ [][NextTileMap]_vars

\* ================================================================ claims
\* The stages of the last update: after processInput, after ambientAcceleration,
\* and after the integration of move(), before stayInWorld.
LastInput ==
    processInput([last.pre EXCEPT !.lastX = last.pre.x, !.lastY = last.pre.y],
                 last.direction, last.now)

LastAmbient == ambientAcceleration(LastInput)

LastIntegrated == integrate(LastAmbient, physicsDelta)

\* The last collideSolid: what it returned and the calls of _collideSolidBox it made.
LastCollide == collideSolid(last.pre, last.collideWith)

\* The last call was update(direction) with gravity on and a jump direction.
JumpInput ==
    /\ last.op = "update"
    /\ last.pre.GRAVITY
    /\ anyIn(keys.up, last.direction)

\* The Actor as the jump branch of that update found it.
BeforeJumpBranch ==
    moveHorizontal([last.pre EXCEPT !.lastX = last.pre.x, !.lastY = last.pre.y],
                   last.direction)

\* The jump branch of that update took the jump.
JumpAccepted == LastInput.numJumps = last.pre.numJumps + 1

\* C1: with an 'up' direction and GRAVITY on, the jump is accepted if and only if
\* (not inAir or numJumps < MULTI_JUMP or MULTI_JUMP = -1) and now - lastJump >
\* JUMP_DELAY and (not JUMP_RELEASE or the jump key is up); an accepted jump sets
\* lastJump to now, a rejected one leaves yVelocity, numJumps, inAir, lastJump and
\* jumpDirection as the jump branch found them.
C1_JumpEligibility ==
    JumpInput =>
        /\ JumpAccepted <=>
              /\ \/ ~last.pre.inAir
                 \/ last.pre.numJumps < last.pre.MULTI_JUMP
                 \/ last.pre.MULTI_JUMP = -1
              /\ last.now - last.pre.lastJump > JUMP_DELAY
              /\ ~last.pre.JUMP_RELEASE \/ ~last.pre.jumpKeyDown
        /\ JumpAccepted => LastInput.lastJump = last.now
        /\ ~JumpAccepted =>
              /\ LastInput.yVelocity = BeforeJumpBranch.yVelocity
              /\ LastInput.numJumps = BeforeJumpBranch.numJumps
              /\ LastInput.inAir = BeforeJumpBranch.inAir
              /\ LastInput.lastJump = BeforeJumpBranch.lastJump
              /\ LastInput.jumpDirection = BeforeJumpBranch.jumpDirection

\* An airborne Actor with MULTI_JUMP = 2 takes its second jump after a key release.
C1_Witness ==
    /\ JumpInput /\ JumpAccepted
    /\ last.pre.inAir /\ last.pre.numJumps = 1 /\ last.pre.MULTI_JUMP = 2
    /\ last.pre.JUMP_RELEASE
    /\ LastInput.lastJump = last.now

\* C2 as claimed: an accepted jump has numJumps one higher, inAir, yVelocity =
\* -JUMP_VEL and jumpDirection.left / .right equal to whether left / right was part
\* of the step's input.
C2_JumpEffectAsClaimed ==
    (JumpInput /\ JumpAccepted) =>
        /\ LastInput.numJumps = last.pre.numJumps + 1
        /\ LastInput.inAir
        /\ LastInput.yVelocity = -JUMP_VEL
        /\ LastInput.jumpDirection.left = ("left" \in last.direction)
        /\ LastInput.jumpDirection.right = ("right" \in last.direction)

\* C2 amended: an accepted jump has numJumps one higher, inAir, yVelocity =
\* -JUMP_VEL, jumpDirection.left true iff left was part of the step's input, and
\* jumpDirection.right true iff right was part of it and left was not.
C2_JumpEffect ==
    (JumpInput /\ JumpAccepted) =>
        /\ LastInput.numJumps = last.pre.numJumps + 1
        /\ LastInput.inAir
        /\ LastInput.yVelocity = -JUMP_VEL
        /\ LastInput.jumpDirection.left = ("left" \in last.direction)
        /\ LastInput.jumpDirection.right =
              ("right" \in last.direction /\ "left" \notin last.direction)

\* A jump to the right from the ground.
C2_Witness ==
    /\ JumpInput /\ JumpAccepted
    /\ last.direction = {"up", "right"}
    /\ ~last.pre.inAir
    /\ LastInput.jumpDirection = [right |-> TRUE, left |-> FALSE]
    /\ LastInput.yVelocity = -JUMP_VEL

\* C3: with MULTI_JUMP = 1, an update that finds the Actor airborne with numJumps = 1
\* rejects the jump input (yVelocity and lastJump are left as they were), however
\* much time has passed and whether or not the jump key was released; only a landing
\* (numJumps back to 0) changes that.
C3_MultiJumpBound ==
    (JumpInput /\ last.pre.MULTI_JUMP = 1 /\ last.pre.inAir /\ last.pre.numJumps = 1) =>
        /\ ~JumpAccepted
        /\ LastInput.yVelocity = last.pre.yVelocity
        /\ LastInput.lastJump = last.pre.lastJump
        /\ LastInput.numJumps = 1

\* The second jump is refused although the delay has passed and the key was released.
C3_Witness ==
    /\ JumpInput /\ last.pre.MULTI_JUMP = 1 /\ last.pre.inAir /\ last.pre.numJumps = 1
    /\ last.now - last.pre.lastJump > JUMP_DELAY
    /\ ~last.pre.jumpKeyDown
    /\ LastInput.lastJump = last.pre.lastJump

\* The calls of _collideSolidBox made by the last collideSolid.
BoxCalls == IF last.op = "collideSolid" THEN { LastCollide.steps[i] : i \in DOMAIN LastCollide.steps } ELSE {}

\* The standing condition of a call, from the position the push-out left the Actor
\* at: at lastX its horizontal range meets the box and its bottom edge is within
\* one pixel of the box's top.
StoodOn(call) ==
    /\ call.before.lastX + call.before.width >= call.box.x
    /\ call.box.x + call.box.width >= call.before.lastX
    /\ abs(call.result.actor.y + call.before.height - call.box.y) <= 1

\* C4: when _collideSolidBox finds the Actor standing on the obstacle (GRAVITY on,
\* whatever the state before), the Actor is GROUNDED afterwards: numJumps = 0,
\* inAir = false, yVelocity and yAcceleration are 0 if they were positive and
\* unchanged otherwise, and the result reports falling = false.
C4_StandingGrounds ==
    \A call \in BoxCalls :
        (call.before.GRAVITY /\ StoodOn(call)) =>
            /\ call.result.actor.numJumps = 0
            /\ ~call.result.actor.inAir
            /\ call.result.actor.yVelocity =
                  (IF call.before.yVelocity > 0 THEN 0 ELSE call.before.yVelocity)
            /\ call.result.actor.yAcceleration =
                  (IF call.before.yAcceleration > 0 THEN 0 ELSE call.before.yAcceleration)
            /\ ~call.result.falling

\* A jumping Actor that is still rising lands on the platform from below: its
\* negative yVelocity is kept.
C4_Witness ==
    \E call \in BoxCalls :
        /\ call.before.GRAVITY /\ StoodOn(call)
        /\ call.before.inAir /\ call.before.numJumps = 1
        /\ call.before.yVelocity < 0
        /\ call.before.yAcceleration > 0
        /\ call.result.actor.yVelocity = call.before.yVelocity
        /\ call.result.actor.yAcceleration = 0
        /\ ~call.result.actor.inAir

\* The last collideSolid found no support: no call stood on its box, and the Actor
\* was not resting on the floor of a world it stays in.
Unsupported ==
    /\ last.op = "collideSolid"
    /\ last.pre.GRAVITY
    /\ \A call \in BoxCalls : ~StoodOn(call)
    /\ last.pre.y + last.pre.height # world.height \/ ~last.pre.STAY_IN_WORLD

\* An update that finds the Actor falling with the momentum of a ledge to the right.
FallingRightUpdate ==
    /\ last.op = "update"
    /\ last.pre.GRAVITY
    /\ last.pre.inAir /\ last.pre.numJumps = 0
    /\ last.pre.jumpDirection = [right |-> TRUE, left |-> FALSE]
    /\ last.direction \in { {}, {"right"} }

\* C6: a grounded Actor (GRAVITY on) that moved right in its update and is then found
\* without support is FALLING afterwards (inAir, numJumps = 0) with
\* jumpDirection.right = true and .left = false; and the update that follows, with
\* right held or not, integrates with xVelocity = MOVEAMOUNT.
C6_LedgeWalkOff ==
    /\ (Unsupported /\ ~last.pre.inAir /\ last.pre.fallLeft = Some(FALSE)) =>
          /\ actor.inAir /\ actor.numJumps = 0
          /\ actor.jumpDirection = [right |-> TRUE, left |-> FALSE]
    /\ FallingRightUpdate =>
          /\ LastAmbient.xVelocity = MOVEAMOUNT
          /\ LastIntegrated.x = last.pre.x + MOVEAMOUNT * physicsDelta

\* The update after walking off the platform's ledge, right no longer held, moves
\* the Actor by MOVEAMOUNT from beyond the ledge, still at the platform's level.
C6_Witness ==
    /\ FallingRightUpdate
    /\ last.pre.lastX > Platform.x + Platform.width
    /\ last.pre.y + last.pre.height = Platform.y
    /\ last.direction = {}
    /\ last.pre.fallLeft = Some(FALSE)
    /\ last.pre.xVelocity = 0
    /\ actor.x = last.pre.x + MOVEAMOUNT * physicsDelta
    /\ actor.inAir

\* C7: with STAY_IN_WORLD, after move() the Actor's box lies inside the world on each
\* axis, and when the bottom clamp fired (the integrated y + height exceeded
\* world.height) the Actor has inAir = false, numJumps = 0 and yVelocity <= 0.
C7_StayInWorld ==
    (last.op = "update" /\ last.pre.STAY_IN_WORLD /\ ~last.pre.isBeingDragged) =>
        /\ 0 <= actor.x /\ actor.x + actor.width <= world.width
        /\ 0 <= actor.y /\ actor.y + actor.height <= world.height
        /\ LastIntegrated.y + actor.height > world.height =>
              /\ ~actor.inAir /\ actor.numJumps = 0 /\ actor.yVelocity <= 0

\* A jumping Actor comes down past the floor and is clamped onto it.
C7_Witness ==
    /\ last.op = "update" /\ last.pre.STAY_IN_WORLD
    /\ last.pre.inAir /\ last.pre.numJumps = 1
    /\ LastIntegrated.y + actor.height > world.height
    /\ LastIntegrated.yVelocity > 0
    /\ actor.y + actor.height = world.height
    /\ ~actor.inAir /\ actor.numJumps = 0 /\ actor.yVelocity = 0

\* C8 as claimed: for every kind of argument collideSolid calls startFalling iff the
\* seed and every per-obstacle 'not standing' result are true, the seed being false
\* for an Actor resting on the floor of a world it stays in (and without GRAVITY),
\* so that such an Actor is never put in the air; the value returned is the OR of
\* the per-obstacle collided flags.
C8_FallingAggregation ==
    last.op = "collideSolid" =>
        /\ LastCollide.falling <=>
              /\ last.pre.GRAVITY
              /\ last.pre.y + last.pre.height # world.height \/ ~last.pre.STAY_IN_WORLD
              /\ \A call \in BoxCalls : call.result.falling
        /\ (last.pre.y + last.pre.height = world.height /\ last.pre.STAY_IN_WORLD
               /\ ~last.pre.inAir) => ~actor.inAir
        /\ LastCollide.collided <=> \E call \in BoxCalls : call.result.collided

\* C9 as claimed: collideSolid(B) and collideSolid(Collection containing only B)
\* return the same value and leave the Actor in the same state.
C9_BoxAsCollection ==
    (last.op = "collideSolid" /\ last.collideWith.kind = "Box") =>
        LET r == collideSolid(last.pre, [kind |-> "Collection",
                                         items |-> <<last.collideWith.box>>])
        IN  /\ r.collided = LastCollide.collided
            /\ r.actor = actor

\* The penetration depths of a call of _collideSolidBox.
DepthOnX(call) ==
    min(call.before.x + call.before.width - call.box.x,
        call.box.x + call.box.width - call.before.x)

DepthOnY(call) ==
    min(call.before.y + call.before.height - call.box.y,
        call.box.y + call.box.height - call.before.y)

Overlapped(call) ==
    /\ call.before.x + call.before.width >= call.box.x
    /\ call.box.x + call.box.width >= call.before.x
    /\ call.before.y + call.before.height >= call.box.y
    /\ call.box.y + call.box.height >= call.before.y

\* C10: when the Actor overlaps the obstacle, the correction is made on the axis of
\* the smaller penetration depth, and on X when the depths are equal: with depth on
\* X <= depth on Y the Actor ends at the X-corrected position with y unchanged,
\* otherwise at the Y-corrected position with x unchanged.
C10_SmallerAxisFirst ==
    \A call \in BoxCalls :
        Overlapped(call) =>
            IF DepthOnX(call) <= DepthOnY(call)
            THEN /\ call.result.actor.y = call.before.y
                 /\ call.result.actor.x \in { call.box.x - call.before.width - 1,
                                              call.box.x + call.box.width + 1 }
            ELSE /\ call.result.actor.x = call.before.x
                 /\ call.result.actor.y \in { call.box.y - call.before.height - 1,
                                              call.box.y + call.box.height + 1 }

\* Equal depths, both positive: the Actor is moved on X and keeps its y.
C10_Witness ==
    \E call \in BoxCalls :
        /\ Overlapped(call)
        /\ DepthOnX(call) = DepthOnY(call) /\ DepthOnX(call) > 0
        /\ call.result.actor.y = call.before.y
        /\ call.result.actor.x # call.before.x

\* The Actor's bottom edge is on the platform's top, or the pixel above it where the
\* push-out leaves it, and its horizontal range meets the platform's.
OnPlatform(this) ==
    /\ this.y + this.height \in { Platform.y - 1, Platform.y }
    /\ this.x + this.width >= Platform.x
    /\ Platform.x + Platform.width >= this.x

\* ... and the two horizontal ranges share more than an end point.
WellOnPlatform(this) ==
    /\ OnPlatform(this)
    /\ this.x + this.width > Platform.x
    /\ Platform.x + Platform.width > this.x

Grounded(this) == ~this.inAir /\ this.numJumps = 0

\* C5 as claimed: an Actor (GRAVITY on) created with its bottom edge on the top of
\* the platform and its horizontal range overlapping the platform's is GROUNDED
\* after every step of updates without direction and collideSolid calls against
\* the platform.
C5_RestingStaysGrounded == Grounded(actor)

\* C5 amended: the same, for an Actor whose horizontal range shares more than an end
\* point with the platform's: it stays on the platform and stays GROUNDED.
C5_WellRestingStaysGrounded ==
    /\ [](WellOnPlatform(actor) => Grounded(actor))
    /\ [][WellOnPlatform(actor) => WellOnPlatform(actor')]_vars

\* In the last step the Actor, one pixel above the platform since the first
\* push-out, is found standing again.
C5_Witness ==
    /\ last.op = "collideSolid"
    /\ physicsTimeElapsed = MaxTime
    /\ WellOnPlatform(last.pre) /\ last.pre.y + last.pre.height = Platform.y - 1
    /\ WellOnPlatform(actor) /\ Grounded(actor)
    /\ ~LastCollide.collided /\ ~LastCollide.falling

\* The closed-interval overlap of the Actor before the last call with a box.
Overlapping(this, other) ==
    /\ this.x + this.width >= other.x /\ other.x + other.width >= this.x
    /\ this.y + this.height >= other.y /\ other.y + other.height >= this.y

\* C11 as claimed: on each axis the push-out of an overlapping Actor goes to
\* obstacle.start - actorSize - 1 when the Actor's centre is strictly less than the
\* obstacle's centre on that axis and to obstacle.end + 1 otherwise, equal centres
\* included; the returned distance is the new position minus the old one, and 0
\* when the boxes do not overlap.
C11_PushOutAsClaimed ==
    LET this == last.pre
        other == last.collideWith.box
    IN  /\ last.op = "moveOutsideX" =>
              /\ actor.x = (IF ~Overlapping(this, other) THEN this.x
                            ELSE IF 2 * this.x + this.width < 2 * other.x + other.width
                                 THEN other.x - this.width - 1
                                 ELSE other.x + other.width + 1)
              /\ actor.y = this.y
              /\ movedX(this, other) = actor.x - this.x
        /\ last.op = "moveOutsideY" =>
              /\ actor.y = (IF ~Overlapping(this, other) THEN this.y
                            ELSE IF 2 * this.y + this.height < 2 * other.y + other.height
                                 THEN other.y - this.height - 1
                                 ELSE other.y + other.height + 1)
              /\ actor.x = this.x
              /\ movedY(this, other) = actor.y - this.y

\* Where the push-out step of a call of _collideSolidBox left the Actor.
PushedOut(call) ==
    IF Overlapping(call.before, call.box)
    THEN moveOutside(call.before, call.box)
    ELSE call.before

\* C12: in _collideSolidBox with GRAVITY on, the standing test is evaluated with
\* the Actor's x replaced by lastX (standing iff the horizontal range at lastX meets
\* the obstacle's and the bottom edge is within one pixel of the obstacle's top), and
\* x is restored afterwards: on return x is the x the push-out step produced (and
\* lastX is untouched), whatever the outcome of the standing test.
C12_StandingAtLastX ==
    \A call \in BoxCalls :
        call.before.GRAVITY =>
            /\ call.result.falling = ~StoodOn(call)
            /\ call.result.actor.x = PushedOut(call).x
            /\ call.result.actor.lastX = call.before.lastX

\* The Actor has just walked off the ledge: at lastX it stands on the platform, at
\* its current x it would not, and it keeps its current x.
C12_Witness ==
    \E call \in BoxCalls :
        /\ call.before.GRAVITY /\ StoodOn(call)
        /\ call.box = Platform
        /\ call.result.actor.x > Platform.x + Platform.width
        /\ call.result.actor.x # call.before.lastX
        /\ ~call.result.falling

\* The last collideSolid hit the bottom edge of a call's box: after the push-out the
\* Actor's top is within one pixel of the box's bottom.
HitBottom(call) ==
    abs(PushedOut(call).y - (call.box.y + call.box.height)) <= 1

\* What C13 says of a call, given whether the Actor counts as airborne in it.
MomentumStopped(call, airborne) ==
    LET pushed == PushedOut(call)
        after == call.result.actor
    IN  IF Overlapping(call.before, call.box) /\ ~StoodOn(call) /\ airborne
        THEN IF HitBottom(call)
             THEN /\ after.yVelocity = (IF pushed.yVelocity < 0 THEN 0 ELSE pushed.yVelocity)
                  /\ after.yAcceleration =
                        (IF pushed.yAcceleration < 0 THEN 0 ELSE pushed.yAcceleration)
                  /\ after.jumpDirection = pushed.jumpDirection
             ELSE /\ after.jumpDirection = [right |-> FALSE, left |-> FALSE]
                  /\ after.yVelocity = pushed.yVelocity
                  /\ after.yAcceleration = pushed.yAcceleration
        ELSE ~StoodOn(call) =>
                  /\ after.jumpDirection = pushed.jumpDirection
                  /\ after.yVelocity = pushed.yVelocity
                  /\ after.yAcceleration = pushed.yAcceleration

StartedFalling == last.op = "collideSolid" /\ LastCollide.falling

\* The Actor as that startFalling found it.
BeforeStartFalling == collideAll(last.pre, last.collideWith).actor

\* C14: startFalling sets inAir = true and leaves numJumps unchanged; it overwrites
\* jumpDirection (left = fallLeft, right = not fallLeft) only when the Actor was
\* grounded beforehand and fallLeft is not null, and otherwise leaves jumpDirection
\* unchanged.
C14_StartFalling ==
    StartedFalling =>
        /\ actor.inAir
        /\ actor.numJumps = BeforeStartFalling.numJumps
        /\ actor.jumpDirection =
              (IF ~BeforeStartFalling.inAir /\ BeforeStartFalling.fallLeft # Null
               THEN [left |-> BeforeStartFalling.fallLeft = Some(TRUE),
                     right |-> BeforeStartFalling.fallLeft = Some(FALSE)]
               ELSE BeforeStartFalling.jumpDirection)

\* An Actor already in the air that last moved left keeps the jump direction it
\* had: its momentum is not derived again from fallLeft.
C14_Witness ==
    /\ StartedFalling
    /\ BeforeStartFalling.inAir
    /\ BeforeStartFalling.fallLeft = Some(TRUE)
    /\ ~BeforeStartFalling.jumpDirection.left
    /\ actor.jumpDirection = BeforeStartFalling.jumpDirection
    /\ actor.inAir

\* Twice the velocity after the first half of the acceleration, on entry values:
\* 2 * (v + a * dt / 2).
TwiceKickedX(this, dt) == 2 * this.xVelocity + this.xAcceleration * dt

TwiceKickedY(this, dt) == 2 * this.yVelocity + this.yAcceleration * dt

\* The diagonal rescale of move() applies to an Actor on entry.
RescaleApplies(this, dt) ==
    ~this.GRAVITY /\ TwiceKickedX(this, dt) # 0 /\ TwiceKickedY(this, dt) # 0

\* The clamp of stayInWorld fires on a position.
ClampFires(this, x, y) ==
    /\ this.STAY_IN_WORLD
    /\ \/ x < 0 \/ x + this.width > world.width
       \/ y < 0 \/ y + this.height > world.height

\* C15: move() integrates half-kick, drift, half-kick: when no diagonal rescale
\* applies and no world clamp fires, the position delta on each axis is
\* (v + a*dt/2)*dt and the velocity afterwards is v + a*dt, v and a being the values
\* on entry.
C15_HalfKickDriftHalfKick ==
    LET this == last.pre
        dt == physicsDelta
    IN  (/\ last.op = "move"
         /\ ~RescaleApplies(this, dt)
         /\ ~ClampFires(this, this.x + (TwiceKickedX(this, dt) * dt) \div 2,
                              this.y + (TwiceKickedY(this, dt) * dt) \div 2)) =>
            /\ 2 * (actor.x - this.x) = TwiceKickedX(this, dt) * dt
            /\ 2 * (actor.y - this.y) = TwiceKickedY(this, dt) * dt
            /\ actor.xVelocity = this.xVelocity + this.xAcceleration * dt
            /\ actor.yVelocity = this.yVelocity + this.yAcceleration * dt

\* An accelerated Actor: the drift differs from both v*dt and (v + a*dt)*dt.
C15_Witness ==
    /\ last.op = "move"
    /\ physicsDelta = 1
    /\ last.pre.GRAVITY /\ ~last.pre.STAY_IN_WORLD
    /\ last.pre.yVelocity = -2 /\ last.pre.yAcceleration = 2
    /\ actor.y = last.pre.y - 1
    /\ actor.yVelocity = 0

\* The velocity move() drifts with: after the first half-kick and the rescale.
DriftVelocity == rescale(kick(last.pre, physicsDelta))

\* C16: with GRAVITY off and both velocity components nonzero after the first
\* half-kick, the velocity used for the drift has the Euclidean magnitude
\* max(|vx|, |vy|) of the vector before the rescale, and its direction; the rescale
\* is skipped (velocity untouched) when either component is zero or GRAVITY is on.
\* The drift of move() uses that velocity.
C16_DiagonalCap ==
    LET this == last.pre
        dt == physicsDelta
        kx == kick(this, dt).xVelocity
        ky == kick(this, dt).yVelocity
        dx == DriftVelocity.xVelocity
        dy == DriftVelocity.yVelocity
    IN  last.op = "move" =>
            /\ IF ~this.GRAVITY /\ kx # 0 /\ ky # 0
               THEN /\ dx * dx + dy * dy = max(abs(kx), abs(ky)) * max(abs(kx), abs(ky))
                    /\ dx * ky = dy * kx
                    /\ dx * kx > 0 /\ dy * ky > 0
               ELSE dx = kx /\ dy = ky
            /\ ~this.STAY_IN_WORLD =>
                    /\ actor.x = this.x + dx * dt
                    /\ actor.y = this.y + dy * dt
                    /\ actor.xVelocity = dx + halfStep(this.xAcceleration, dt)
                    /\ actor.yVelocity = dy + halfStep(this.yAcceleration, dt)

\* A diagonal velocity (15, 20) after an accelerated half-kick is capped to
\* (12, 16), of magnitude 20, and the Actor drifts by it.
C16_Witness ==
    /\ last.op = "move"
    /\ ~last.pre.GRAVITY /\ ~last.pre.STAY_IN_WORLD
    /\ physicsDelta = 2
    /\ last.pre.xVelocity = 15 /\ last.pre.yVelocity = 18 /\ last.pre.yAcceleration = 2
    /\ DriftVelocity.xVelocity = 12 /\ DriftVelocity.yVelocity = 16
    /\ actor.x = last.pre.x + 24 /\ actor.y = last.pre.y + 32

\* The Actor before the last call is inside the world.
InsideWorld(this) ==
    /\ this.x >= 0 /\ this.x + this.width <= world.width
    /\ this.y >= 0 /\ this.y + this.height <= world.height

\* C17 as claimed: with App.physicsDelta = 0, move() is a no-op: for every Actor
\* inside the world, x, y, xVelocity and yVelocity after move() are what they were
\* before it, with GRAVITY on and off.
C17_ZeroDeltaNoOp ==
    (last.op = "move" /\ physicsDelta = 0 /\ InsideWorld(last.pre)) =>
        /\ actor.x = last.pre.x
        /\ actor.y = last.pre.y
        /\ actor.xVelocity = last.pre.xVelocity
        /\ actor.yVelocity = last.pre.yVelocity

\* C18 as claimed: dampVelocity with DAMPING_FACTOR set multiplies each damped axis
\* by (1 - DAMPING_FACTOR*dt) and never zeroes it, the vertical axis being left
\* alone when GRAVITY is on; with DAMPING_FACTOR null it sets xVelocity to 0, and
\* yVelocity to 0 only if GRAVITY is off.
C18_DampVelocity ==
    LET this == last.pre
        factor == 1 - this.DAMPING_FACTOR[1] * physicsDelta
    IN  last.op = "dampVelocity" =>
            IF this.DAMPING_FACTOR # Null
            THEN /\ actor.xVelocity = this.xVelocity * factor
                 /\ actor.yVelocity =
                       (IF this.GRAVITY THEN this.yVelocity ELSE this.yVelocity * factor)
            ELSE /\ actor.xVelocity = 0
                 /\ actor.yVelocity = (IF this.GRAVITY THEN this.yVelocity ELSE 0)

\* The last call was update(direction) with a horizontal direction.
HorizontalInput ==
    /\ last.op = "update"
    /\ anyIn(keys.left \cup keys.right, last.direction)

\* C19: horizontal input while airborne with GRAVITY on: if jumpDirection records a
\* momentum opposite to the input direction, or none, xVelocity is set to
\* +/-MOVEAMOUNT*AIR_CONTROL (sign of the input) and jumpDirection becomes
\* {left: false, right: false}; if it records a momentum in the input's direction,
\* xVelocity and jumpDirection are left as they were.  When grounded, or with
\* GRAVITY off, the input sets xVelocity to +/-MOVEAMOUNT.  (The input's direction
\* is left when left is given, right otherwise.)
C19_AirControl ==
    LET this == last.pre
        after == BeforeJumpBranch
        toLeft == anyIn(keys.left, last.direction)
        sign == IF toLeft THEN -1 ELSE 1
        same == IF toLeft THEN this.jumpDirection.left ELSE this.jumpDirection.right
        opposite == IF toLeft THEN this.jumpDirection.right ELSE this.jumpDirection.left
    IN  HorizontalInput =>
            IF this.GRAVITY /\ this.inAir
            THEN IF opposite \/ ~same
                 THEN /\ 100 * after.xVelocity = sign * MOVEAMOUNT * AIR_CONTROL_PERCENT
                      /\ after.jumpDirection = [right |-> FALSE, left |-> FALSE]
                 ELSE /\ after.xVelocity = this.xVelocity
                      /\ after.jumpDirection = this.jumpDirection
            ELSE /\ after.xVelocity = sign * MOVEAMOUNT
                 /\ after.jumpDirection = this.jumpDirection

\* An Actor falling without momentum steers left at the air-control speed.
C19_Witness ==
    /\ HorizontalInput
    /\ last.direction = {"left"}
    /\ last.pre.GRAVITY /\ last.pre.inAir
    /\ last.pre.jumpDirection = [right |-> FALSE, left |-> FALSE]
    /\ 100 * BeforeJumpBranch.xVelocity = -MOVEAMOUNT * AIR_CONTROL_PERCENT

\* C20: ambientAcceleration, once per update: with GRAVITY on and the Actor in the
\* air, yAcceleration grows by G_CONST and xVelocity is set to -MOVEAMOUNT /
\* +MOVEAMOUNT when jumpDirection.left / .right is set (left alone when neither is);
\* with GRAVITY on and the Actor grounded, the landing (stopFalling) is applied
\* instead; with GRAVITY off nothing changes.  An Actor that is in the air before
\* and after an update has gained exactly G_CONST, and one that is in the air before
\* and after a collideSolid has kept its yAcceleration, so that k airborne updates in
\* a row without a landing add k*G_CONST.
C20_AmbientAcceleration ==
    LET before == LastInput
        after == LastAmbient
    IN  /\ last.op = "update" =>
              /\ IF ~before.GRAVITY THEN after = before
                 ELSE IF before.inAir
                 THEN /\ after.yAcceleration = before.yAcceleration + G_CONST
                      /\ after.xVelocity =
                            (IF before.jumpDirection.left THEN -MOVEAMOUNT
                             ELSE IF before.jumpDirection.right THEN MOVEAMOUNT
                             ELSE before.xVelocity)
                      /\ after.inAir /\ after.numJumps = before.numJumps
                      /\ after.yVelocity = before.yVelocity
                 ELSE /\ ~after.inAir /\ after.numJumps = 0
                      /\ after.yAcceleration =
                            (IF before.yAcceleration > 0 THEN 0 ELSE before.yAcceleration)
                      /\ after.yVelocity =
                            (IF before.yVelocity > 0 THEN 0 ELSE before.yVelocity)
                      /\ after.xVelocity = before.xVelocity
              /\ (last.pre.GRAVITY /\ last.pre.inAir /\ actor.inAir) =>
                    actor.yAcceleration = last.pre.yAcceleration + G_CONST
        /\ (last.op = "collideSolid" /\ last.pre.GRAVITY /\ last.pre.inAir /\ actor.inAir) =>
              actor.yAcceleration = last.pre.yAcceleration

\* The second airborne update in a row of an Actor carried right by its jump: its
\* yAcceleration reaches 2 * G_CONST and its xVelocity is set to MOVEAMOUNT again.
C20_Witness ==
    /\ last.op = "update"
    /\ last.pre.GRAVITY /\ last.pre.inAir /\ actor.inAir
    /\ last.pre.yAcceleration = G_CONST
    /\ actor.yAcceleration = 2 * G_CONST
    /\ LastInput.jumpDirection.right
    /\ LastInput.xVelocity = 0
    /\ LastAmbient.xVelocity = MOVEAMOUNT

\* C21: lastX / lastY are the Actor's position before the current step's
\* integration: at creation they are (x, y); during and after each update they are
\* the position the Actor had when that update was entered (a correction by the
\* previous collideSolid included), on the normal and on the dragged path alike; and
\* collideSolid (like the drag listeners) never changes them.
C21_LastPosition ==
    /\ last.op = "init" => (actor.lastX = actor.x /\ actor.lastY = actor.y)
    /\ last.op = "update" =>
          /\ actor.lastX = last.pre.x /\ actor.lastY = last.pre.y
          /\ LastInput.lastX = last.pre.x /\ LastInput.lastY = last.pre.y
          /\ LastAmbient.lastX = last.pre.x /\ LastAmbient.lastY = last.pre.y
    /\ last.op \in {"collideSolid", "dragstart", "dragstop"} =>
          (actor.lastX = last.pre.lastX /\ actor.lastY = last.pre.lastY)

\* A dragged Actor that the previous collideSolid had pushed away from where the
\* mouse put it: the update records the corrected position.
C21_Witness ==
    /\ last.op = "update"
    /\ last.pre.isBeingDragged
    /\ last.pre.x # last.pre.lastX
    /\ last.pre.x # last.args.x - last.pre.width \div 2
    /\ actor.x # last.pre.x
    /\ actor.lastX = last.pre.x /\ actor.lastY = last.pre.y

\* C25: a missing direction is defaulted: processInput with an empty (or undefined)
\* direction list changes no field of the Actor when CONTINUOUS_MOVEMENT is false,
\* and behaves as processInput(lastLooked) when CONTINUOUS_MOVEMENT is true, so that
\* the whole update ends as update(lastLooked) would.
C25_MissingDirection ==
    LET entry == [last.pre EXCEPT !.lastX = last.pre.x, !.lastY = last.pre.y]
    IN  (last.op = "update" /\ last.direction = {} /\ ~last.pre.isBeingDragged) =>
            IF ~last.pre.CONTINUOUS_MOVEMENT
            THEN LastInput = entry
            ELSE /\ LastInput = processInput(entry, entry.lastLooked, last.now)
                 /\ LastInput =
                       (IF anyIn(keys.left \cup keys.right \cup keys.up \cup keys.down,
                                 entry.lastLooked)
                        THEN setLastLooked(moveVertical(moveHorizontal(entry, entry.lastLooked),
                                                        entry.lastLooked, last.now),
                                           entry.lastLooked)
                        ELSE entry)
                 /\ actor = update(last.pre, last.pre.lastLooked, last.now, physicsDelta,
                                   last.args)

\* An Actor in continuous movement that last looked right keeps walking right
\* without any direction given.
C25_Witness ==
    /\ last.op = "update" /\ last.direction = {} /\ ~last.pre.isBeingDragged
    /\ last.pre.CONTINUOUS_MOVEMENT
    /\ last.pre.lastLooked = {"right"}
    /\ ~last.pre.inAir
    /\ LastInput.xVelocity = MOVEAMOUNT
    /\ actor.x = last.pre.x + MOVEAMOUNT

\* The objects stored in a grid, row by row and cell by cell, blanks left out.
RECURSIVE Stored(_, _, _)
Stored(grid, i, j) ==
    IF i > Len(grid) THEN <<>>
    ELSE IF j > Len(grid[i]) THEN Stored(grid, i + 1, 1)
    ELSE (IF grid[i][j] # Null THEN <<grid[i][j][1]>> ELSE <<>>) \o Stored(grid, i, j + 1)

\* The members of a Collection or TileMap in its iteration order.
Members(set) == IF set.kind = "Collection" THEN set.items ELSE Stored(set.grid, 1, 1)

\* C22: obstacles are read-only: collides, standingOn and collideSolid (with
\* moveOutside) leave every obstacle of the scene, and the membership and order of
\* every Collection and TileMap, as they were, and collides and standingOn leave the
\* Actor as it was too; an empty Collection or TileMap is tolerated: collides
\* returns false, and collideSolid returns false without moving the Actor.
C22_ObstaclesReadOnly ==
    /\ [][solids' = solids]_vars
    /\ [](last.op \in {"collides", "standingOn"} => actor = last.pre)
    /\ []((last.op \in {"collides", "collideSolid"} /\ last.collideWith.kind # "Box"
            /\ Members(last.collideWith) = <<>>) =>
              /\ collides(last.pre, last.collideWith) = Null
              /\ last.op = "collideSolid" =>
                    /\ ~LastCollide.collided
                    /\ actor.x = last.pre.x /\ actor.y = last.pre.y)

\* collideSolid has pushed the Actor out of a Collection of two obstacles, which is
\* still in the scene as it was.
C22_Witness ==
    /\ last.op = "collideSolid"
    /\ last.collideWith = [kind |-> "Collection", items |-> <<Platform, Block>>]
    /\ LastCollide.collided
    /\ actor.x # last.pre.x
    /\ last.collideWith \in solids
    /\ solids = Solids \cup EmptyTileMaps

\* C23: Box.collides(set) returns the first member, in the container's iteration
\* order (row-major for a grid), that overlaps the box, and false when no member
\* overlaps or the set is empty; for a single Box it returns that Box iff it
\* overlaps, else false.
C23_CollidesFirst ==
    LET this == last.pre
        result == collides(this, last.collideWith)
        items == Members(last.collideWith)
        hits == { i \in DOMAIN items : Overlapping(this, items[i]) }
    IN  last.op = "collides" =>
            IF last.collideWith.kind = "Box"
            THEN result = (IF Overlapping(this, last.collideWith.box)
                           THEN Some(last.collideWith.box) ELSE Null)
            ELSE IF hits = {} THEN result = Null
            ELSE \E i \in hits : /\ \A k \in hits : i <= k
                                  /\ result = Some(items[i])

\* The Actor overlaps both tiles of the TileMap; the block, stored in the first
\* row, is returned although the platform is the first of the Collection.
C23_Witness ==
    /\ last.op = "collides"
    /\ last.collideWith.kind = "TileMap"
    /\ Overlapping(last.pre, Platform) /\ Overlapping(last.pre, Block)
    /\ collides(last.pre, last.collideWith) = Some(Block)
    /\ collides(last.pre, [kind |-> "Collection", items |-> <<Platform, Block>>])
          = Some(Platform)

\* C24: overlapsX(a, b) holds iff a.x + a.width >= b.x and b.x + b.width >= a.x
\* (closed intervals: boxes that merely touch overlap), overlapsY likewise on y and
\* height, overlaps is their conjunction, and all three are symmetric in their two
\* boxes.
C24_ClosedIntervals ==
    \A b \in {Platform, Block} :
        /\ overlapsX(actor, b) <=>
              (actor.x + actor.width >= b.x /\ b.x + b.width >= actor.x)
        /\ overlapsY(actor, b) <=>
              (actor.y + actor.height >= b.y /\ b.y + b.height >= actor.y)
        /\ overlaps(actor, b) <=> (overlapsX(actor, b) /\ overlapsY(actor, b))
        /\ overlapsX(actor, b) <=> overlapsX(b, actor)
        /\ overlapsY(actor, b) <=> overlapsY(b, actor)
        /\ overlaps(actor, b) <=> overlaps(b, actor)

\* The Actor's right edge is on the block's left edge, its bottom edge on the
\* block's top edge: the boxes touch at a corner only, and collides returns the block.
C24_Witness ==
    /\ last.op = "collides"
    /\ last.collideWith = [kind |-> "Collection", items |-> <<Platform, Block>>]
    /\ actor.x + actor.width = Block.x
    /\ actor.y + actor.height = Block.y
    /\ overlaps(actor, Block)
    /\ collides(actor, last.collideWith) = Some(Block)

\* C26: with JUMP_RELEASE and GRAVITY on, between any two accepted jumps of an Actor
\* there is a release() whose directions include an 'up' key.  jumpKeyDown is the
\* Actor's record of it: an accepted jump finds it false and sets it, every update
\* with 'up' sets it whether or not the jump is accepted, no jump is accepted while
\* it is set, and only a release() with an 'up' key clears it -- a landing does not.
\* Holding the key (up in every update, no release) so yields at most one jump.
C26_ReleaseBetweenJumps ==
    (last.op # "init" /\ last.pre.GRAVITY /\ last.pre.JUMP_RELEASE) =>
        /\ (JumpInput /\ JumpAccepted) => (~last.pre.jumpKeyDown /\ actor.jumpKeyDown)
        /\ (JumpInput /\ last.pre.jumpKeyDown) => (~JumpAccepted /\ actor.jumpKeyDown)
        /\ (last.pre.jumpKeyDown /\ ~actor.jumpKeyDown) =>
              (last.op = "release" /\ anyIn(keys.up, last.direction))
        /\ (last.op = "update" /\ actor.numJumps > last.pre.numJumps) => JumpInput

\* The jump key is still held from the last jump when the Actor, back on the
\* ground and past the jump delay, is given 'up' again: the jump is refused.
C26_Witness ==
    /\ JumpInput /\ last.pre.JUMP_RELEASE
    /\ last.pre.jumpKeyDown
    /\ ~last.pre.inAir
    /\ last.pre.lastJump > 0
    /\ last.now - last.pre.lastJump > JUMP_DELAY
    /\ ~JumpAccepted
    /\ actor.jumpKeyDown

\* An Actor's state with its MULTI_JUMP setting left out of the comparison.
SameButMultiJump(a, b) == a = [b EXCEPT !.MULTI_JUMP = a.MULTI_JUMP]

\* C27 as claimed: MULTI_JUMP = 0 is the same as MULTI_JUMP = 1: two Actors that
\* differ in nothing else, taken through the same updates, collideSolids and
\* releases, are in the same state after every step.  From any state the Actor with
\* MULTI_JUMP = 0 has reached, which its twin has then reached too, every next
\* operation leaves the two alike.
C27_ZeroIsOne ==
    LET twin == [actor EXCEPT !.MULTI_JUMP = 1]
    IN  actor.MULTI_JUMP = 0 =>
            /\ \A direction \in Directions(actor) :
                  SameButMultiJump(
                      update(actor, direction, physicsTimeElapsed, physicsDelta, NoMouse),
                      update(twin, direction, physicsTimeElapsed, physicsDelta, NoMouse))
            /\ \A collideWith \in solids :
                  SameButMultiJump(collideSolid(actor, collideWith).actor,
                                   collideSolid(twin, collideWith).actor)
            /\ \A releasedDirections \in ReleasedDirections :
                  SameButMultiJump(release(actor, releasedDirections),
                                   release(twin, releasedDirections))

\* The last call was a collideSolid against a Collection or TileMap of several
\* obstacles.
CollidedWithSeveral ==
    /\ last.op = "collideSolid"
    /\ last.collideWith.kind # "Box"
    /\ Len(Members(last.collideWith)) >= 2

\* C28: a single collideSolid against a set of several obstacles can both mark the
\* Actor collided and put it into falling: whenever the Actor (GRAVITY on, not
\* resting on the floor of a world it must stay in) overlaps one of the obstacles and
\* stands on none of them, the call returns true, having pushed the Actor out, and
\* calls startFalling.  The witness shows that such a call is reachable.
C28_CollidedAndFalling ==
    (/\ CollidedWithSeveral
     /\ last.pre.GRAVITY
     /\ last.pre.y + last.pre.height # world.height \/ ~last.pre.STAY_IN_WORLD
     /\ \E call \in BoxCalls : Overlapping(call.before, call.box)
     /\ \A call \in BoxCalls : ~StoodOn(call)) =>
        /\ LastCollide.collided
        /\ LastCollide.falling
        /\ actor.inAir
        /\ \A b \in { call.box : call \in BoxCalls } :
              (Overlapping(last.pre, b) /\ Cardinality({ call \in BoxCalls :
                    Overlapping(call.before, call.box) }) = 1) => ~Overlapping(actor, b)

\* A grounded Actor walks into the side of the block, past the platform's ledge:
\* the one call pushes it out of the block and starts its fall.
C28_Witness ==
    /\ CollidedWithSeveral
    /\ ~last.pre.inAir
    /\ LastCollide.collided
    /\ LastCollide.falling
    /\ actor.inAir
    /\ Overlapping(last.pre, Block) /\ ~Overlapping(actor, Block)
    /\ actor.x # last.pre.x

\* C29 as claimed: getAccelerationVector returns the magnitude and direction of the
\* Actor's acceleration: the result depends on xAcceleration and yAcceleration alone
\* (an Actor with the same acceleration and no velocity gets the same result), and
\* after setAccelerationVector(dir, m) the magnitude reported is m.
C29_AccelerationVector ==
    last.op = "setAccelerationVector" =>
        /\ getAccelerationVector(actor).magnitude = last.args.magnitude
        /\ getAccelerationVector(actor) =
              getAccelerationVector([actor EXCEPT !.xVelocity = 0, !.yVelocity = 0])

\* C30 as claimed: TileMap.getAll returns exactly the non-null objects stored in the
\* grid, each once, in row-major order, for every grid, rows of different lengths
\* included, and after any sequence of setCell and clearCell calls; no entry of the
\* result is undefined.
C30_GetAllStored ==
    \A tileMap \in solids :
        /\ TileMapGetAll(tileMap.grid) = Stored(tileMap.grid, 1, 1)
        /\ \A k \in 1..Len(TileMapGetAll(tileMap.grid)) :
              TileMapGetAll(tileMap.grid)[k] # Undefined

\* C31 as claimed: after clearAll, called once or repeatedly, every cell of the grid
\* reads null through getCell, getAll returns an empty array, and getRows and getCols
\* are what they were before the call.
C31_ClearAllBlanks ==
    last.op = "clearAll" =>
        \A tileMap \in solids :
            /\ \A row \in 1..getRows(tileMap) : \A col \in 1..getCols(tileMap) :
                  getCell(tileMap, row, col) = Null
            /\ TileMapGetAll(tileMap.grid) = <<>>
            /\ getRows(tileMap) = getRows(last.collideWith)
            /\ getCols(tileMap) = getCols(last.collideWith)

\* The three states of the airborne/grounded machine.
GROUNDED == ~isInAir(actor)

JUMPING == isInAir(actor) /\ isJumping(actor)

FALLING == isFalling(actor)

\* C32: in every state reached through update, collideSolid and release from a new
\* Actor, a grounded Actor has numJumps = 0; so exactly one of GROUNDED, JUMPING and
\* FALLING holds, and isJumping() implies isInAir().
C32_AirborneStates ==
    /\ GROUNDED => actor.numJumps = 0
    /\ Cardinality({ s \in {"GROUNDED", "JUMPING", "FALLING"} :
           \/ s = "GROUNDED" /\ GROUNDED
           \/ s = "JUMPING" /\ JUMPING
           \/ s = "FALLING" /\ FALLING }) = 1
    /\ isJumping(actor) => isInAir(actor)

\* An Actor that was jumping has landed, and its count of jumps is back at 0.
C32_Witness ==
    /\ last.op \in {"update", "collideSolid"}
    /\ isInAir(last.pre) /\ isJumping(last.pre)
    /\ GROUNDED
    /\ actor.numJumps = 0

\* The most jumps an Actor may have made since it last stood: max(1, MULTI_JUMP).
MaxJumps(this) == IF this.MULTI_JUMP > 1 THEN this.MULTI_JUMP ELSE 1

\* C33: numJumps is never negative, and for MULTI_JUMP >= 0 it never exceeds
\* max(1, MULTI_JUMP), whatever the inputs, releases, landings and ledge falls.
C33_JumpsBounded ==
    /\ actor.numJumps >= 0
    /\ actor.MULTI_JUMP >= 0 => actor.numJumps <= MaxJumps(actor)

\* An airborne Actor that has made all its jumps asks for one more, delay passed and
\* key released, and is refused.
C33_Witness ==
    /\ last.op = "update" /\ "up" \in last.direction
    /\ last.pre.GRAVITY /\ last.pre.MULTI_JUMP >= 0
    /\ isInAir(last.pre)
    /\ last.pre.numJumps = MaxJumps(last.pre)
    /\ jumpReady(last.pre, last.now)
    /\ actor.numJumps = last.pre.numJumps

\* C34: jumpDirection.left and jumpDirection.right are never both true, after any
\* sequence of inputs, jumps, starts of falls, collisions and air-control overrides.
C34_OneJumpDirection == ~(actor.jumpDirection.left /\ actor.jumpDirection.right)

\* A jump is accepted with the keys to the left and to the right both down: the jump
\* goes left only.
C34_Witness ==
    /\ JumpInput /\ JumpAccepted
    /\ anyIn(keys.left, last.direction) /\ anyIn(keys.right, last.direction)
    /\ LastInput.jumpDirection = [right |-> FALSE, left |-> TRUE]
    /\ actor.jumpDirection.left /\ ~actor.jumpDirection.right

\* C35: moveOutside(other) on an Actor that overlaps other leaves it outside other,
\* one pixel away on the corrected axis, with exactly one of x and y changed, and
\* returns a displacement that is nonzero on that axis and 0 on the other; on an
\* Actor that does not overlap other it changes nothing and returns {x: 0, y: 0}.
C35_MoveOutside ==
    last.op = "moveOutside" =>
        LET this == last.pre
            other == last.collideWith.box
            moved == last.args
        IN  IF Overlapping(this, other)
            THEN /\ ~Overlapping(actor, other)
                 /\ (actor.x # this.x) # (actor.y # this.y)
                 /\ actor.x # this.x =>
                       \/ actor.x + actor.width + 1 = other.x
                       \/ actor.x = other.x + other.width + 1
                 /\ actor.y # this.y =>
                       \/ actor.y + actor.height + 1 = other.y
                       \/ actor.y = other.y + other.height + 1
                 /\ moved = [x |-> actor.x - this.x, y |-> actor.y - this.y]
                 /\ (moved.x # 0) # (moved.y # 0)
                 /\ actor = [this EXCEPT !.x = actor.x, !.y = actor.y]
            ELSE actor = this /\ moved = [x |-> 0, y |-> 0]

\* An Actor deeper inside the block on x than on y is moved up or down only.
C35_Witness ==
    /\ last.op = "moveOutside" /\ last.collideWith.box = Block
    /\ Overlapping(last.pre, Block)
    /\ depthY(last.pre, Block) < depthX(last.pre, Block)
    /\ actor.x = last.pre.x /\ actor.y # last.pre.y
    /\ last.args.x = 0 /\ last.args.y # 0
    /\ ~Overlapping(actor, Block)

\* C36 as claimed: when collideSolid against a Collection or TileMap returns, the
\* Actor overlaps none of its members: being pushed out of one member never leaves
\* the Actor inside another member of the same set.
C36_OutsideEveryMember ==
    (last.op = "collideSolid" /\ last.collideWith.kind # "Box") =>
        \A k \in 1..Len(Members(last.collideWith)) :
            ~overlaps(actor, Members(last.collideWith)[k])

\* The Actor stands on the floor of the world.
OnFloor == ~isInAir(actor) /\ actor.y + actor.height = world.height

\* The scene's set of obstacles has no member.
NoObstacles == \A collideWith \in solids : collideWith.kind # "Box" /\ getAll(collideWith) = <<>>

\* C37: with GRAVITY on, STAY_IN_WORLD on, a positive step and no further jump input,
\* an airborne Actor eventually is not in the air, under repeated steps of update
\* followed by collideSolid; with no obstacles it is then on the floor of the world
\* and stays there, grounded.
C37_EventuallyLands ==
    /\ isInAir(actor) ~> ~isInAir(actor)
    /\ (isInAir(actor) /\ NoObstacles) ~> [](frame.updated => OnFloor)

\* An update lands an airborne Actor on the floor of a world without obstacles.
C37_Witness ==
    /\ last.op = "update" /\ ~anyIn(keys.up, last.direction)
    /\ isInAir(last.pre)
    /\ last.pre.y + last.pre.height < world.height
    /\ NoObstacles
    /\ OnFloor

\* C38 as claimed: with GRAVITY off the airborne machine is inert: after every
\* sequence of update and collideSolid calls, with a single Box, a Collection or a
\* TileMap, inAir is false, numJumps is 0 and jumpDirection is {left: false,
\* right: false}.
C38_InertWithoutGravity ==
    ~actor.GRAVITY =>
        /\ ~actor.inAir
        /\ actor.numJumps = 0
        /\ actor.jumpDirection = [right |-> FALSE, left |-> FALSE]

\* C39 as claimed: air momentum does not survive a landing: when an Actor that has
\* landed and stood still for an update (fallLeft is null) starts falling in a
\* collideSolid (its support is gone), the next update, given no horizontal input,
\* leaves its xVelocity at 0 after the ambient acceleration and does not move it
\* sideways: the jumpDirection of the earlier jump or fall is not applied again.
C39_NoStaleMomentum ==
    [][(/\ last.op = "collideSolid"
        /\ ~isInAir(last.pre) /\ last.pre.fallLeft = Null
        /\ isInAir(actor)
        /\ last'.op = "update"
        /\ ~anyIn(keys.left, last'.direction) /\ ~anyIn(keys.right, last'.direction))
       => (LastAmbient'.xVelocity = 0 /\ actor'.x = actor.x)]_vars

====
